---- MODULE Spec2Model ----
(***************************************************************************)
(* A model of wk2_lab.py: the Flask handler generate_wk2_lab and the       *)
(* functions it calls (save_upload, compute_score, build_pdf_wk2_lab,      *)
(* append_pdf_uploads), with the uploads area, the output area, the clock  *)
(* and the environment as shared state.                                    *)
(*                                                                         *)
(* Strings are sequences of atoms.  Text typed by a user is a sequence of  *)
(* one-character atoms; a literal of the program that holds only lower     *)
(* case letters, digits and "_" (an upload prefix, a directory name, a     *)
(* timestamp) is kept as one atom.                                         *)
(***************************************************************************)
EXTENDS Integers, Sequences, FiniteSets, TLC

\* ------------------------------------------------------------------ bounds
\* The clock (seconds) runs from 0 to MaxClock.
MaxClock == 1
\* The number of direct save_upload calls in SpecSave.
MaxCalls == 3
\* The longest name given to safe_filename in SpecName.
MaxName == 3

\* ----------------------------------------------------------------- strings
EMPTY == << >>

Str1(a) == <<a>>

IsSpace(c) == c \in {" ", "\t", "\n"}

\* str.strip(): leading and trailing whitespace removed.
RECURSIVE LStrip(_)
LStrip(s) == IF s = EMPTY THEN EMPTY
             ELSE IF IsSpace(Head(s)) THEN LStrip(Tail(s)) ELSE s

RECURSIVE RStrip(_)
RStrip(s) == IF s = EMPTY THEN EMPTY
             ELSE IF IsSpace(s[Len(s)]) THEN RStrip(SubSeq(s, 1, Len(s) - 1)) ELSE s

Strip(s) == RStrip(LStrip(s))

\* str.lower() on the atoms used: upper-case letters of the inputs.
LowerAtom(c) == CASE c = "A" -> "a" [] c = "B" -> "b" [] c = "P" -> "p"
                  [] c = "D" -> "d" [] c = "F" -> "f" [] c = "N" -> "n"
                  [] c = "G" -> "g" [] OTHER -> c

Lower(s) == [i \in 1..Len(s) |-> LowerAtom(s[i])]

\* The characters outside [a-zA-Z0-9._-] among the atoms used.
IsUnsafe(c) == c \in {" ", "\t", "\n", "/", "#", "$"}

\* re.sub(r"[^a-zA-Z0-9._-]+", "_", s): each maximal run of unsafe
\* characters becomes one "_".
RECURSIVE SubUnsafe(_, _)
SubUnsafe(s, inRun) ==
    IF s = EMPTY THEN EMPTY
    ELSE IF IsUnsafe(Head(s))
         THEN (IF inRun THEN EMPTY ELSE <<"_">>) \o SubUnsafe(Tail(s), TRUE)
         ELSE <<Head(s)>> \o SubUnsafe(Tail(s), FALSE)

\* Faulty variant of safe_filename: the dots are replaced too.
safe_filename_Dotless(s) ==
    LET r == SubUnsafe(Strip(s), FALSE)
    IN  IF r = EMPTY THEN <<"file">>
        ELSE [i \in 1..Len(r) |-> IF r[i] = "." THEN "_" ELSE r[i]]

\* Faulty variant of safe_filename: the input is not trimmed first.
safe_filename_Unstripped(s) ==
    LET r == SubUnsafe(s, FALSE)
    IN  IF r = EMPTY THEN <<"file">> ELSE r

safe_filename(s) ==
    LET r == SubUnsafe(Strip(s), FALSE)
    IN  IF r = EMPTY THEN <<"file">> ELSE r

\* str.replace(".", "_")
ReplaceDots(s) == [i \in 1..Len(s) |-> IF s[i] = "." THEN "_" ELSE s[i]]

\* p.rfind(c): the last index of c in s, 0 when absent.
RFind(s, c) == LET I == {i \in 1..Len(s) : s[i] = c}
               IN  IF I = {} THEN 0 ELSE CHOOSE i \in I : \A j \in I : j <= i

\* os.path.splitext(p)[1]: from the last "." of the last path component,
\* unless only dots precede it in that component.
SplitExt(p) ==
    LET sepIndex == RFind(p, "/")
        dotIndex == RFind(p, ".")
    IN  IF dotIndex > sepIndex
           /\ \E k \in (sepIndex + 1)..(dotIndex - 1) : p[k] # "."
        THEN SubSeq(p, dotIndex, Len(p))
        ELSE EMPTY

\* os.path.basename(p)
BaseName(p) == SubSeq(p, RFind(p, "/") + 1, Len(p))

IMAGE_EXTS == { <<".", "p", "n", "g">>, <<".", "j", "p", "g">>,
                <<".", "j", "p", "e", "g">>, <<".", "w", "e", "b", "p">> }
PDF_EXTS == { <<".", "p", "d", "f">> }
ALLOWED_EXTS == IMAGE_EXTS \cup PDF_EXTS

file_ext(path) == SplitExt(Lower(path))

is_image(path) == file_ext(path) \in IMAGE_EXTS

is_pdf(path) == file_ext(path) \in PDF_EXTS

\* ------------------------------------------------------------------ schema
\* The required ("yellow") fields of the marking scheme.
YELLOW_TEXT_FIELDS == <<
    "member1", "member2", "lab_date", "unc_meterstick",
    "unc_ruler", "unc_triple", "unc_digital", "unc_vernier",
    "unc_micrometer", "p2_tool", "p2_object", "p2_L",
    "p2_W", "p2_T", "p2_volume", "p2_vol_units",
    "p2_vol_best", "p2_vol_err", "p2_vol_err_units", "p3_obj_ruler",
    "p3_ruler_L", "p3_ruler_W", "p3_ruler_T", "p3_ruler_vol",
    "p3_ruler_vol_units", "p3_ruler_best", "p3_ruler_err", "p3_ruler_err_units",
    "p3_obj_vernier", "p3_vernier_L", "p3_vernier_W", "p3_vernier_T",
    "p3_vernier_vol", "p3_vernier_vol_units", "p3_vernier_best", "p3_vernier_err",
    "p3_vernier_err_units", "p3_obj_mic", "p3_mic_L", "p3_mic_W",
    "p3_mic_T", "p3_mic_vol", "p3_mic_vol_units", "p3_mic_best",
    "p3_mic_err", "p3_mic_err_units", "m_tb_obj", "m_tb_mass",
    "m_tb_err", "m_tb_units", "m_dig_obj", "m_dig_mass",
    "m_dig_err", "m_dig_units", "d1_density", "d1_units",
    "d1_best", "d1_err", "d1_err_units", "d2_density",
    "d2_units", "d2_best", "d2_err", "d2_err_units",
    "d3_density", "d3_units", "d3_best", "d3_err",
    "d3_err_units", "perr_1", "perr_2", "perr_3",
    "qa2", "qa3", "qa4", "qa5",
    "qa6" >>

YELLOW_UPLOAD_FIELDS == <<
    "p2_unc_upload", "p3_ruler_unc_upload", "p3_vernier_unc_upload",
    "p3_mic_unc_upload", "d1_upload", "d2_upload",
    "d3_upload", "perr_upload", "app1_table_length",
    "app1_table_width", "app1_table_height", "app1_length_ruler",
    "app1_length_vernier", "app1_length_micrometer", "app1_width_ruler",
    "app1_width_vernier", "app1_width_micrometer", "app1_height_ruler",
    "app1_height_vernier", "app1_height_micrometer", "app1_mass_digital",
    "app1_mass_triplebeam", "signed_data" >>

\* The text keys generate_wk2_lab reads from the form, in the order read.
FORM_TEXT_KEYS == <<
    "member1", "member2", "member3", "lab_date",
    "unc_meterstick", "unc_ruler", "unc_triple", "unc_digital",
    "unc_vernier", "unc_micrometer", "p2_tool", "p2_object",
    "p2_L", "p2_W", "p2_T", "p2_expr",
    "p2_volume", "p2_vol_units", "p2_vol_best", "p2_vol_err",
    "p2_vol_err_units", "p3_obj_ruler", "p3_ruler_L", "p3_ruler_W",
    "p3_ruler_T", "p3_ruler_expr", "p3_ruler_vol", "p3_ruler_vol_units",
    "p3_ruler_best", "p3_ruler_err", "p3_ruler_err_units", "p3_obj_vernier",
    "p3_vernier_L", "p3_vernier_W", "p3_vernier_T", "p3_vernier_expr",
    "p3_vernier_vol", "p3_vernier_vol_units", "p3_vernier_best", "p3_vernier_err",
    "p3_vernier_err_units", "p3_obj_mic", "p3_mic_L", "p3_mic_W",
    "p3_mic_T", "p3_mic_expr", "p3_mic_vol", "p3_mic_vol_units",
    "p3_mic_best", "p3_mic_err", "p3_mic_err_units", "m_tb_obj",
    "m_tb_mass", "m_tb_err", "m_tb_units", "m_dig_obj",
    "m_dig_mass", "m_dig_err", "m_dig_units", "d1_expr",
    "d1_density", "d1_units", "d1_best", "d1_err",
    "d1_err_units", "d2_expr", "d2_density", "d2_units",
    "d2_best", "d2_err", "d2_err_units", "d3_expr",
    "d3_density", "d3_units", "d3_best", "d3_err",
    "d3_err_units", "perr_1", "perr_2", "perr_3",
    "qa2", "qa3", "qa4", "qa5",
    "qa6", "professor_name" >>

\* The text keys whose newlines become "<br/>".
EXPR_KEYS == { "p2_expr", "p3_ruler_expr", "p3_vernier_expr", "p3_mic_expr",
               "d1_expr", "d2_expr", "d3_expr" }

\* The upload keys, in the order generate_wk2_lab calls save_upload.
UPLOAD_KEYS == <<
    "p2_unc_upload", "p3_ruler_unc_upload", "p3_vernier_unc_upload",
    "p3_mic_unc_upload", "d1_upload", "d2_upload",
    "d3_upload", "sample_calc", "perr_upload",
    "signed_data", "app1_table_length", "app1_table_width",
    "app1_table_height", "app1_length_ruler", "app1_length_vernier",
    "app1_length_micrometer", "app1_width_ruler", "app1_width_vernier",
    "app1_width_micrometer", "app1_height_ruler", "app1_height_vernier",
    "app1_height_micrometer", "app1_mass_digital", "app1_mass_triplebeam" >>

\* The keys of the list all_uploads given to append_pdf_uploads, in order.
all_uploads_keys == <<
    "p2_unc_upload", "p3_ruler_unc_upload", "p3_vernier_unc_upload",
    "p3_mic_unc_upload", "d1_upload", "d2_upload",
    "d3_upload", "sample_calc", "perr_upload",
    "signed_data" >>

\* The prefix generate_wk2_lab passes to save_upload for an upload key.
upload_prefix(k) ==
    CASE k = "p2_unc_upload" -> "p2_unc"
      [] k = "p3_ruler_unc_upload" -> "p3_ruler_unc"
      [] k = "p3_vernier_unc_upload" -> "p3_vernier_unc"
      [] k = "p3_mic_unc_upload" -> "p3_mic_unc"
      [] k = "d1_upload" -> "d1"
      [] k = "d2_upload" -> "d2"
      [] k = "d3_upload" -> "d3"
      [] k = "perr_upload" -> "perr"
      [] k = "signed_data" -> "signed"
      [] OTHER -> k

\* The keys build_pdf_wk2_lab gives to add_uploaded_block, and those it gives
\* to appendix_image_cell.
BLOCK_KEYS == { all_uploads_keys[i] : i \in 1..Len(all_uploads_keys) }

APPENDIX_I_KEYS == { UPLOAD_KEYS[i] : i \in 11..Len(UPLOAD_KEYS) }

Range(s) == { s[i] : i \in 1..Len(s) }

RECURSIVE SelectIn(_, _)
\* [x for x in s if x in keep]
SelectIn(s, keep) ==
    IF s = EMPTY THEN EMPTY
    ELSE (IF Head(s) \in keep THEN <<Head(s)>> ELSE EMPTY) \o SelectIn(Tail(s), keep)

\* dict.get(k, default)
Get(d, k, default) == IF k \in DOMAIN d THEN d[k] ELSE default

\* ----------------------------------------------------------------- storage
UPLOADS_DIR == <<"uploads", "/">>
OUT_DIR == <<"generated_pdfs", "/">>

\* os.path.exists(path), for a path of the uploads area held in fs.
Exists(fs, path) == path \in DOMAIN fs

\* The bytes of a file: an image, a paged document of some pages, or bytes
\* that are neither.
ImgData == [kind |-> "img", pages |-> 0]
PdfData(n) == [kind |-> "pdf", pages |-> n]
BadData == [kind |-> "bad", pages |-> 0]

\* request.files.get(k) when no file was sent.
NoFile == [filename |-> EMPTY, data |-> BadData, present |-> FALSE]
File(name, data) == [filename |-> name, data |-> data, present |-> TRUE]

\* ------------------------------------------------------------------ scoring
is_filled_text(val) == val # EMPTY /\ Strip(val) # EMPTY

\* Faulty variant of is_filled_upload: the reference alone is looked at.
is_filled_upload_RefOnly(fs, path) == path # EMPTY

is_filled_upload(fs, path) == path # EMPTY /\ Exists(fs, path)

TextFilled(payload) ==
    { k \in Range(YELLOW_TEXT_FIELDS) : is_filled_text(Get(payload, k, EMPTY)) }

UploadFilled(payload, fs) ==
    { k \in Range(YELLOW_UPLOAD_FIELDS) : is_filled_upload(fs, Get(payload, k, EMPTY)) }

\* Faulty variant of compute_score: the missing upload keys come first.
compute_score_UploadsFirst(payload, fs) ==
    LET okText == SelectIn(YELLOW_TEXT_FIELDS, TextFilled(payload))
        okUp == SelectIn(YELLOW_UPLOAD_FIELDS, UploadFilled(payload, fs))
        missing == SelectIn(YELLOW_UPLOAD_FIELDS,
                            Range(YELLOW_UPLOAD_FIELDS) \ UploadFilled(payload, fs))
                   \o SelectIn(YELLOW_TEXT_FIELDS,
                               Range(YELLOW_TEXT_FIELDS) \ TextFilled(payload))
    IN  [score |-> Len(okText) + Len(okUp),
         total |-> Len(YELLOW_TEXT_FIELDS) + Len(YELLOW_UPLOAD_FIELDS),
         missing |-> missing]

\* Faulty variant of compute_score: the score counts the text fields only.
compute_score_TextOnly(payload, fs) ==
    LET okText == SelectIn(YELLOW_TEXT_FIELDS, TextFilled(payload))
        missing == SelectIn(YELLOW_TEXT_FIELDS,
                            Range(YELLOW_TEXT_FIELDS) \ TextFilled(payload))
                   \o SelectIn(YELLOW_UPLOAD_FIELDS,
                               Range(YELLOW_UPLOAD_FIELDS) \ UploadFilled(payload, fs))
    IN  [score |-> Len(okText),
         total |-> Len(YELLOW_TEXT_FIELDS) + Len(YELLOW_UPLOAD_FIELDS),
         missing |-> missing]

\* compute_score(payload): (score, total, missing).
compute_score(payload, fs) ==
    LET okText == SelectIn(YELLOW_TEXT_FIELDS, TextFilled(payload))
        okUp == SelectIn(YELLOW_UPLOAD_FIELDS, UploadFilled(payload, fs))
        missing == SelectIn(YELLOW_TEXT_FIELDS,
                            Range(YELLOW_TEXT_FIELDS) \ TextFilled(payload))
                   \o SelectIn(YELLOW_UPLOAD_FIELDS,
                               Range(YELLOW_UPLOAD_FIELDS) \ UploadFilled(payload, fs))
    IN  [score |-> Len(okText) + Len(okUp),
         total |-> Len(YELLOW_TEXT_FIELDS) + Len(YELLOW_UPLOAD_FIELDS),
         missing |-> missing]

\* Python's round(x) of the quotient 100 * score / total: to the nearest
\* integer, a tie to the even one.
RoundDiv(n, d) ==
    LET q == n \div d
        r == n % d
    IN  IF 2 * r < d THEN q
        ELSE IF 2 * r > d THEN q + 1
        ELSE IF q % 2 = 0 THEN q ELSE q + 1

\* Faulty variant of completion_pct: the quotient is cut, not rounded.
completion_pct_Truncated(score, total) == IF total # 0 THEN (100 * score) \div total ELSE 0

\* round((score / total) * 100) if total else 0.  For the totals used no
\* quotient falls on a half, where the floating-point product could round
\* either way.
completion_pct(score, total) == IF total # 0 THEN RoundDiv(100 * score, total) ELSE 0

\* --------------------------------------------------------------- exceptions
\* A raised exception, by its Python type.
Exc(type) == [type |-> type]
NoExc == [type |-> "none"]

\* ValueError(f"Unsupported upload type: {ext}. Allowed: {', '.join(sorted(ALLOWED_EXTS))}"):
\* the message holds the extension and the allowed extensions.
UnsupportedUpload(ext) == [type |-> "ValueError", ext |-> ext, allowed |-> ALLOWED_EXTS]

\* --------------------------------------------------------------- documents
\* reportlab's StandardEncryption(userPassword, ownerPassword, canPrint,
\* canModify, canCopy, canAnnotate).
StandardEncryption(user, owner, canPrint, canModify, canCopy, canAnnotate) ==
    [locked |-> TRUE, userPassword |-> user, ownerPassword |-> owner,
     canPrint |-> canPrint, canModify |-> canModify, canCopy |-> canCopy,
     canAnnotate |-> canAnnotate]

\* A document written with no encryption dictionary: anyone may open it and
\* nothing is restricted.
NoEncryption ==
    [locked |-> FALSE, userPassword |-> EMPTY, ownerPassword |-> EMPTY,
     canPrint |-> 1, canModify |-> 1, canCopy |-> 1, canAnnotate |-> 1]

OWNER_LOCK == <<"OWNER_LOCK">>
OWNER_SUFFIX == <<"_OWNER">>

ReportPage(sec) == [src |-> <<"report">>, sec |-> sec, no |-> 0]
AttachedPage(path, i) == [src |-> path, sec |-> "attachment", no |-> i]

\* The sections build_pdf_wk2_lab always emits, one page tag per section.
REPORT_SECTIONS == <<"cover", "theory", "data", "questions", "appendix_I", "appendix_II">>

NoDoc == [pages |-> EMPTY, encrypt |-> NoEncryption, cover |-> EMPTY, blocks |-> EMPTY,
          created |-> EMPTY]

\* Faulty variant of add_uploaded_block: a reference to a missing file is
\* rendered like a stored one.
add_uploaded_block_NoExistsCheck(fs, path) ==
    IF path = EMPTY THEN "none"
    ELSE IF is_image(path) THEN "image"
    ELSE IF is_pdf(path) THEN "pdf_note"
    ELSE "unsupported"

\* add_uploaded_block(story, styles, label, path): what it appends.
add_uploaded_block(fs, path) ==
    IF path = EMPTY \/ ~Exists(fs, path) THEN "none"
    ELSE IF is_image(path) THEN "image"
    ELSE IF is_pdf(path) THEN "pdf_note"
    ELSE "unsupported"

\* appendix_image_cell(path): the definition in force (the second one).
appendix_image_cell(fs, path) ==
    IF path # EMPTY /\ Exists(fs, path) THEN "image" ELSE "blank"

\* fit_image_fixed_height(path, w, h): RLImage(path) followed by
\* _restrictSize reads the file as an image; bytes that are no image raise.
fit_image_fixed_height(fs, path) ==
    IF Exists(fs, path) /\ fs[path].kind = "img"
    THEN [ok |-> TRUE, exc |-> NoExc]
    ELSE [ok |-> FALSE, exc |-> Exc("ImageError")]

\* What build_pdf_wk2_lab emits for each upload key of the payload.
upload_blocks(payload, fs) ==
    [k \in Range(UPLOAD_KEYS) |->
        IF k \in BLOCK_KEYS THEN add_uploaded_block(fs, Get(payload, k, EMPTY))
        ELSE appendix_image_cell(fs, Get(payload, k, EMPTY))]

\* RLImage(path) followed by _restrictSize reads the file as an image and
\* raises when its bytes are not an image.
ImageLoadFails(payload, fs) ==
    \E k \in Range(UPLOAD_KEYS) :
        /\ upload_blocks(payload, fs)[k] = "image"
        /\ fs[payload[k]].kind # "img"

\* Faulty variant of build_encrypt: the password is used as typed, not stripped.
build_encrypt_Unstripped(include_appendix_ii, instructor_password) ==
    IF include_appendix_ii /\ Strip(instructor_password) # EMPTY
    THEN StandardEncryption(instructor_password, instructor_password \o OWNER_SUFFIX,
                            1, 0, 0, 0)
    ELSE StandardEncryption(EMPTY, OWNER_LOCK, 1, 0, 0, 0)

\* The encryption build_pdf_wk2_lab chooses.
build_encrypt(include_appendix_ii, instructor_password) ==
    IF include_appendix_ii /\ Strip(instructor_password) # EMPTY
    THEN StandardEncryption(Strip(instructor_password),
                            Strip(instructor_password) \o OWNER_SUFFIX, 1, 0, 0, 0)
    ELSE StandardEncryption(EMPTY, OWNER_LOCK, 1, 0, 0, 0)

\* The story build_pdf_wk2_lab assembles, as page tags: Appendix III is
\* appended when include_appendix_ii is set.
build_story(include_appendix_ii) ==
    [i \in 1..Len(REPORT_SECTIONS) |-> ReportPage(REPORT_SECTIONS[i])]
    \o (IF include_appendix_ii THEN <<ReportPage("appendix_III")>> ELSE EMPTY)

\* The cover rows that depend on the payload.
build_cover(payload) ==
    << Get(payload, "member1", EMPTY), Get(payload, "member2", EMPTY),
       Get(payload, "member3", EMPTY), Get(payload, "lab_date", EMPTY),
       <<Get(payload, "score", 0), Get(payload, "score_total", 0),
         Get(payload, "completion_pct", 0)>> >>

\* reportlab stamps the document it writes with the time of writing
\* (/CreationDate and /ModDate of the Info dictionary, to the second), unless
\* told to write an invariant document, which build_pdf_wk2_lab does not ask for.
CreationDate(t) == <<"D:", ToString(t)>>

\* build_pdf_wk2_lab(payload, include_appendix_ii, instructor_password) at
\* clock t: the document, or the exception raised while composing it.
build_pdf_wk2_lab(payload, include_appendix_ii, instructor_password, fs, t) ==
    IF ImageLoadFails(payload, fs)
    THEN [ok |-> FALSE, exc |-> Exc("ImageError"), doc |-> NoDoc]
    ELSE [ok |-> TRUE, exc |-> NoExc,
          doc |-> [pages |-> build_story(include_appendix_ii),
                   encrypt |-> build_encrypt(include_appendix_ii, instructor_password),
                   cover |-> build_cover(payload),
                   blocks |-> upload_blocks(payload, fs),
                   created |-> CreationDate(t)]]

HasRestricted(doc) == \E i \in 1..Len(doc.pages) : doc.pages[i].sec = "appendix_III"

\* The pages of a stored paged document, in its own order.
PagesOf(fs, path) == [i \in 1..fs[path].pages |-> AttachedPage(path, i)]

RECURSIVE ConcatPages(_, _)
ConcatPages(fs, paths) ==
    IF paths = EMPTY THEN EMPTY
    ELSE PagesOf(fs, Head(paths)) \o ConcatPages(fs, Tail(paths))

IsStoredPdf(p, fs) == p # EMPTY /\ is_pdf(p) /\ Exists(fs, p)

\* Faulty variant of pdf_paths_of: every stored reference is kept, whatever
\* its extension.
pdf_paths_of_AnyStored(upload_paths, fs) ==
    SelectIn(upload_paths, { p \in Range(upload_paths) : p # EMPTY /\ Exists(fs, p) })

\* pdf_paths = [p for p in upload_paths if p and is_pdf(p) and os.path.exists(p)]
pdf_paths_of(upload_paths, fs) ==
    SelectIn(upload_paths, { p \in Range(upload_paths) : IsStoredPdf(p, fs) })

\* PdfReader(io.BytesIO(main_pdf_bytes)).pages: an encrypted document is
\* readable without a password only when its user password is empty and the
\* installed PyPDF2 tries the empty password by itself (autoDecrypt).
MainReadable(doc, autoDecrypt) ==
    ~doc.encrypt.locked \/ (doc.encrypt.userPassword = EMPTY /\ autoDecrypt)

\* PyPDF2's PdfReadError for bytes that are not a paged document: its message
\* tells what the parser missed and holds no file name.
PdfReadError == [type |-> "PdfReadError", message |-> <<"EOF marker not found">>]

\* Faulty variant of append_pdf_uploads: the document goes through the writer
\* even when there is nothing to append.
append_pdf_uploads_AlwaysRewrite(main, upload_paths, fs, autoDecrypt, readOk) ==
    LET pdf_paths == pdf_paths_of(upload_paths, fs)
    IN  IF ~MainReadable(main, autoDecrypt)
        THEN [ok |-> FALSE, exc |-> Exc("FileNotDecryptedError"), doc |-> NoDoc]
        ELSE IF pdf_paths # EMPTY /\ ~readOk
        THEN [ok |-> FALSE, exc |-> Exc("OSError"), doc |-> NoDoc]
        ELSE IF \E i \in 1..Len(pdf_paths) : fs[pdf_paths[i]].kind # "pdf"
        THEN [ok |-> FALSE, exc |-> PdfReadError, doc |-> NoDoc]
        ELSE [ok |-> TRUE, exc |-> NoExc,
              doc |-> [main EXCEPT !.pages = main.pages \o ConcatPages(fs, pdf_paths),
                                   !.encrypt = NoEncryption,
                                   !.created = EMPTY]]

\* append_pdf_uploads(main_pdf_bytes, upload_paths): PdfWriter.write is
\* never given an encryption, so what it writes carries none; it copies the
\* pages and not the Info dictionary, so the creation date is gone too.
append_pdf_uploads(main, upload_paths, fs, autoDecrypt, readOk) ==
    LET pdf_paths == pdf_paths_of(upload_paths, fs)
    IN  IF pdf_paths = EMPTY
        THEN [ok |-> TRUE, exc |-> NoExc, doc |-> main]
        ELSE IF ~MainReadable(main, autoDecrypt)
        THEN [ok |-> FALSE, exc |-> Exc("FileNotDecryptedError"), doc |-> NoDoc]
        ELSE IF ~readOk
        THEN [ok |-> FALSE, exc |-> Exc("OSError"), doc |-> NoDoc]
        ELSE IF \E i \in 1..Len(pdf_paths) : fs[pdf_paths[i]].kind # "pdf"
        THEN [ok |-> FALSE, exc |-> PdfReadError, doc |-> NoDoc]
        ELSE [ok |-> TRUE, exc |-> NoExc,
              doc |-> [main EXCEPT !.pages = main.pages \o ConcatPages(fs, pdf_paths),
                                   !.encrypt = NoEncryption,
                                   !.created = EMPTY]]

\* ------------------------------------------------------------- save_upload
\* datetime.now().strftime("%Y%m%d_%H%M%S"): the clock to the second.
Timestamp(t) == ToString(t)

\* Faulty variant of upload_path: the stored name leaves the timestamp out.
upload_path_NoTimestamp(prefix, t, filename) ==
    UPLOADS_DIR \o <<prefix, "_">> \o safe_filename(filename)

\* The stored path save_upload builds for a file name.
upload_path(prefix, t, filename) ==
    UPLOADS_DIR \o <<prefix, "_", Timestamp(t), "_">> \o safe_filename(filename)

\* Faulty variant of save_upload: the file is stored before its extension is
\* looked at.
save_upload_StoreFirst(file, prefix, t, store, saveOk) ==
    IF ~file.present \/ file.filename = EMPTY
    THEN [ok |-> TRUE, exc |-> NoExc, path |-> EMPTY, store |-> store]
    ELSE IF Strip(file.filename) = EMPTY
    THEN [ok |-> TRUE, exc |-> NoExc, path |-> EMPTY, store |-> store]
    ELSE IF ~saveOk
    THEN [ok |-> FALSE, exc |-> Exc("OSError"), path |-> EMPTY, store |-> store]
    ELSE LET out_path == upload_path(prefix, t, file.filename)
             stored == (out_path :> file.data) @@ store
         IN  IF Lower(SplitExt(file.filename)) \notin ALLOWED_EXTS
             THEN [ok |-> FALSE, exc |-> UnsupportedUpload(Lower(SplitExt(file.filename))),
                   path |-> EMPTY, store |-> stored]
             ELSE [ok |-> TRUE, exc |-> NoExc, path |-> out_path, store |-> stored]

\* Faulty variant of save_upload: a file name of blanks is not set apart.
save_upload_NoBlankCheck(file, prefix, t, store, saveOk) ==
    IF ~file.present \/ file.filename = EMPTY
    THEN [ok |-> TRUE, exc |-> NoExc, path |-> EMPTY, store |-> store]
    ELSE IF Lower(SplitExt(file.filename)) \notin ALLOWED_EXTS
    THEN [ok |-> FALSE, exc |-> UnsupportedUpload(Lower(SplitExt(file.filename))),
          path |-> EMPTY, store |-> store]
    ELSE IF ~saveOk
    THEN [ok |-> FALSE, exc |-> Exc("OSError"), path |-> EMPTY, store |-> store]
    ELSE LET out_path == upload_path(prefix, t, file.filename)
         IN  [ok |-> TRUE, exc |-> NoExc, path |-> out_path,
              store |-> (out_path :> file.data) @@ store]

\* save_upload(fs, prefix) at clock t on the uploads area store: the
\* reference returned or the exception raised, and the uploads area after.
\* saveOk tells whether fs.save(out_path) succeeds.
save_upload(file, prefix, t, store, saveOk) ==
    IF ~file.present \/ file.filename = EMPTY
    THEN [ok |-> TRUE, exc |-> NoExc, path |-> EMPTY, store |-> store]
    ELSE IF Strip(file.filename) = EMPTY
    THEN [ok |-> TRUE, exc |-> NoExc, path |-> EMPTY, store |-> store]
    ELSE IF Lower(SplitExt(file.filename)) \notin ALLOWED_EXTS
    THEN [ok |-> FALSE, exc |-> UnsupportedUpload(Lower(SplitExt(file.filename))),
          path |-> EMPTY, store |-> store]
    ELSE IF ~saveOk
    THEN [ok |-> FALSE, exc |-> Exc("OSError"), path |-> EMPTY, store |-> store]
    ELSE LET out_path == upload_path(prefix, t, file.filename)
         IN  [ok |-> TRUE, exc |-> NoExc, path |-> out_path,
              store |-> (out_path :> file.data) @@ store]

\* ------------------------------------------------------------------- state
Procs == {1, 2}

VARIABLES
    harness,              \* what drives the run: "generate", or the function called directly
    now,                  \* the clock, in seconds
    environ,              \* os.environ["INSTRUCTOR_PDF_PASSWORD"], EMPTY when unset
    uploads,              \* the uploads area: stored path -> bytes
    generated_pdfs,       \* the output area: path -> document
    request,              \* per submission: request.form and request.files
    pc,                   \* per submission: the statement generate_wk2_lab is at
    idx,                  \* per submission: the next save_upload call (index into UPLOAD_KEYS)
    payload,              \* per submission: the dict payload
    instructor_pw,        \* per submission: the local instructor_pw
    include_appendix_ii,  \* per submission: the local include_appendix_ii
    student_pdf,          \* per submission: the local student_pdf
    instr_pdf,            \* per submission: the local instr_pdf
    response,             \* per submission: the HTTP response
    raised,               \* per submission: the exception the handler's try block raised
    calls,                \* per submission: the functions invoked so far
    writes,               \* the files written so far: who wrote which path
    saved,                \* the save_upload calls that stored a file, in order
    build_args,           \* the arguments of a direct build_pdf_wk2_lab call
    build_result,         \* its result
    call_args,            \* the arguments of a direct call of another function
    call_result           \* its result

vars == << harness, now, environ, uploads, generated_pdfs, request, pc, idx, payload,
           instructor_pw, include_appendix_ii, student_pdf, instr_pdf, response,
           raised, calls, writes, saved, build_args, build_result, call_args,
           call_result >>

shared == << harness, environ, request, build_args, build_result, call_args, call_result >>

\* No direct call was asked for, or it has not run yet.
NoCall == [done |-> FALSE]

NoResponse == [status |-> 0, body |-> NoDoc, download_name |-> EMPTY]

\* The empty directory.
EmptyDir == [x \in {} |-> ImgData]

\* request.form.get(k) or ""
FormGet(p, k) == Get(request[p].form, k, EMPTY)

\* str.replace("\n", "<br/>")
ReplaceNewlines(s) == [i \in 1..Len(s) |-> IF s[i] = "\n" THEN "<br/>" ELSE s[i]]

\* Faulty variant of Abort: the except clause answers with what was composed so far.
Abort_ReturnsPartial(p, e) ==
    /\ raised' = [raised EXCEPT ![p] = e]
    /\ response' = [response EXCEPT ![p] =
           [status |-> 200, body |-> student_pdf[p], download_name |-> EMPTY]]
    /\ pc' = [pc EXCEPT ![p] = "done"]

\* abort(400, f"Error: {e}") in the handler's except clause.
Abort(p, e) ==
    /\ raised' = [raised EXCEPT ![p] = e]
    /\ response' = [response EXCEPT ![p] =
           [status |-> 400, body |-> NoDoc, download_name |-> EMPTY]]
    /\ pc' = [pc EXCEPT ![p] = "done"]

\* ------------------------------------------------------- generate_wk2_lab
\* The entry of a successful save_upload call in the log saved.
SavedEntry(prefix, t, file, path, store, after) ==
    [prefix |-> prefix, ts |-> t, filename |-> file.filename, path |-> path,
     before |-> DOMAIN store, after |-> DOMAIN after]

\* payload = {...}: every text key, stripped (newlines of the expression
\* fields replaced).
CollectForm(p) ==
    /\ pc[p] = "start"
    /\ payload' = [payload EXCEPT ![p] =
           [k \in Range(FORM_TEXT_KEYS) |->
               IF k \in EXPR_KEYS THEN ReplaceNewlines(Strip(FormGet(p, k)))
               ELSE Strip(FormGet(p, k))]]
    /\ idx' = [idx EXCEPT ![p] = 1]
    /\ pc' = [pc EXCEPT ![p] = "uploads"]
    /\ UNCHANGED << shared, now, uploads, generated_pdfs, instructor_pw,
                    include_appendix_ii, student_pdf, instr_pdf, response, raised, calls,
                    writes, saved >>

\* The index of the next save_upload call, from i on, whose key carries a
\* file; Len(UPLOAD_KEYS) + 1 when none is left.
NextFileIndex(p, i) ==
    LET I == { j \in i..Len(UPLOAD_KEYS) : Get(request[p].files, UPLOAD_KEYS[j], NoFile).present }
    IN  IF I = {} THEN Len(UPLOAD_KEYS) + 1 ELSE CHOOSE j \in I : \A k \in I : j <= k

\* payload[key] = "" for every key among UPLOAD_KEYS[i..j-1]: what
\* save_upload returns for a key that carries no file.
WithEmptyRefs(pl, i, j) ==
    [k \in { UPLOAD_KEYS[n] : n \in i..(j - 1) } |-> EMPTY] @@ pl

\* payload[key] = save_upload(request.files.get(key), prefix), in source
\* order: one step runs the calls for the keys that carry no file (they return
\* "" and touch nothing shared) and then the next call that is given a file.
SaveUpload(p) ==
    /\ pc[p] = "uploads"
    /\ idx[p] <= Len(UPLOAD_KEYS)
    /\ calls' = [calls EXCEPT ![p] = @ \cup {"save_upload"}]
    /\ LET j == NextFileIndex(p, idx[p])
       IN  IF j > Len(UPLOAD_KEYS)
           THEN /\ payload' = [payload EXCEPT ![p] = WithEmptyRefs(@, idx[p], j)]
                /\ idx' = [idx EXCEPT ![p] = j]
                /\ pc' = [pc EXCEPT ![p] = "password"]
                /\ UNCHANGED << uploads, writes, saved, response, raised >>
           ELSE \E saveOk \in BOOLEAN :
                LET key == UPLOAD_KEYS[j]
                    file == request[p].files[key]
                    r == save_upload(file, upload_prefix(key), now, uploads, saveOk)
                IN  /\ uploads' = r.store
                    /\ IF r.ok
                       THEN /\ payload' = [payload EXCEPT ![p] =
                                   (key :> r.path) @@ WithEmptyRefs(@, idx[p], j)]
                            /\ idx' = [idx EXCEPT ![p] = j + 1]
                            /\ pc' = [pc EXCEPT ![p] =
                                   IF j = Len(UPLOAD_KEYS) THEN "password" ELSE "uploads"]
                            /\ writes' = IF r.path = EMPTY THEN writes
                                         ELSE writes \cup {[by |-> p, path |-> r.path]}
                            /\ saved' = IF r.path = EMPTY THEN saved
                                        ELSE Append(saved, SavedEntry(upload_prefix(key), now,
                                                   file, r.path, uploads, r.store))
                            /\ UNCHANGED << response, raised >>
                       ELSE /\ Abort(p, r.exc)
                            /\ UNCHANGED << payload, idx, writes, saved >>
    /\ UNCHANGED << shared, now, generated_pdfs, instructor_pw, include_appendix_ii,
                    student_pdf, instr_pdf >>

\* instructor_pw and include_appendix_ii: the form's password, the
\* environment's when the form's is blank; the flag needs a password.
Password(p) ==
    /\ pc[p] = "password"
    /\ LET form_pw == Strip(FormGet(p, "instructor_password"))
           pw == IF form_pw = EMPTY THEN Strip(environ) ELSE form_pw
       IN  /\ instructor_pw' = [instructor_pw EXCEPT ![p] = pw]
           /\ include_appendix_ii' = [include_appendix_ii EXCEPT ![p] =
                  FormGet(p, "include_appendix_ii") # EMPTY /\ pw # EMPTY]
    /\ pc' = [pc EXCEPT ![p] = "validate"]
    /\ UNCHANGED << shared, now, uploads, generated_pdfs, idx, payload, student_pdf,
                    instr_pdf, response, raised, calls, writes, saved >>

\* Faulty variant of Validate: the date is not checked.
Validate_MemberOnly(p) ==
    /\ pc[p] = "validate"
    /\ IF payload[p]["member1"] = EMPTY
       THEN Abort(p, Exc("ValueError"))
       ELSE pc' = [pc EXCEPT ![p] = "score"] /\ UNCHANGED << response, raised >>
    /\ UNCHANGED << shared, now, uploads, generated_pdfs, idx, payload, instructor_pw,
                    include_appendix_ii, student_pdf, instr_pdf, calls, writes, saved >>

\* The two mandatory fields.
Validate(p) ==
    /\ pc[p] = "validate"
    /\ IF payload[p]["member1"] = EMPTY \/ payload[p]["lab_date"] = EMPTY
       THEN Abort(p, Exc("ValueError"))
       ELSE pc' = [pc EXCEPT ![p] = "score"] /\ UNCHANGED << response, raised >>
    /\ UNCHANGED << shared, now, uploads, generated_pdfs, idx, payload, instructor_pw,
                    include_appendix_ii, student_pdf, instr_pdf, calls, writes, saved >>

\* score, total, missing = compute_score(payload), stored in the payload.
Score(p) ==
    /\ pc[p] = "score"
    /\ LET s == compute_score(payload[p], uploads)
       IN  payload' = [payload EXCEPT ![p] =
               [k \in {"score", "score_total", "missing_fields", "missing_count",
                       "completion_pct"} |->
                   CASE k = "score" -> s.score
                     [] k = "score_total" -> s.total
                     [] k = "missing_fields" -> s.missing
                     [] k = "missing_count" -> Len(s.missing)
                     [] OTHER -> completion_pct(s.score, s.total)] @@ @]
    /\ calls' = [calls EXCEPT ![p] = @ \cup {"compute_score"}]
    /\ pc' = [pc EXCEPT ![p] = "build_student"]
    /\ UNCHANGED << shared, now, uploads, generated_pdfs, idx, instructor_pw,
                    include_appendix_ii, student_pdf, instr_pdf, response, raised, writes, saved >>

\* student_pdf = build_pdf_wk2_lab(payload, include_appendix_ii=False)
BuildStudent(p) ==
    /\ pc[p] = "build_student"
    /\ LET r == build_pdf_wk2_lab(payload[p], FALSE, EMPTY, uploads, now)
       IN  IF r.ok
           THEN /\ student_pdf' = [student_pdf EXCEPT ![p] = r.doc]
                /\ pc' = [pc EXCEPT ![p] = "append_student"]
                /\ UNCHANGED << response, raised >>
           ELSE Abort(p, r.exc) /\ UNCHANGED student_pdf
    /\ calls' = [calls EXCEPT ![p] = @ \cup {"build_pdf_wk2_lab"}]
    /\ UNCHANGED << shared, now, uploads, generated_pdfs, idx, payload, instructor_pw,
                    include_appendix_ii, instr_pdf, writes, saved >>

\* all_uploads = [...]
all_uploads(p) == [i \in 1..Len(all_uploads_keys) |-> Get(payload[p], all_uploads_keys[i], EMPTY)]

\* student_pdf = append_pdf_uploads(student_pdf, all_uploads)
AppendStudent(p) ==
    /\ pc[p] = "append_student"
    /\ \E autoDecrypt \in BOOLEAN, readOk \in BOOLEAN :
        LET r == append_pdf_uploads(student_pdf[p], all_uploads(p), uploads,
                                    autoDecrypt, readOk)
        IN  IF r.ok
            THEN /\ student_pdf' = [student_pdf EXCEPT ![p] = r.doc]
                 /\ pc' = [pc EXCEPT ![p] = "write_student"]
                 /\ UNCHANGED << response, raised >>
            ELSE Abort(p, r.exc) /\ UNCHANGED student_pdf
    /\ calls' = [calls EXCEPT ![p] = @ \cup {"append_pdf_uploads"}]
    /\ UNCHANGED << shared, now, uploads, generated_pdfs, idx, payload, instructor_pw,
                    include_appendix_ii, instr_pdf, writes, saved >>

\* Faulty variant of base_name: the date is left out of the name.
base_name_NoDate(p) ==
    ReplaceDots(safe_filename(payload[p]["member1"]))

\* base = safe_filename(member1 + "_" + lab_date).replace(".", "_")
base_name(p) ==
    ReplaceDots(safe_filename(payload[p]["member1"] \o <<"_">> \o payload[p]["lab_date"]))

student_name(p) == base_name(p) \o <<"_STUDENT", ".", "pdf">>

instr_name(p) == base_name(p) \o <<"_INSTRUCTOR", ".", "pdf">>

\* with open(student_path, "wb") as f: f.write(student_pdf), then the test
\* of include_appendix_ii.
WriteStudent(p) ==
    /\ pc[p] = "write_student"
    /\ \E writeOk \in BOOLEAN :
        IF writeOk
        THEN /\ generated_pdfs' = (OUT_DIR \o student_name(p) :> student_pdf[p]) @@ generated_pdfs
             /\ writes' = writes \cup {[by |-> p, path |-> OUT_DIR \o student_name(p)]}
             /\ pc' = [pc EXCEPT ![p] =
                    IF include_appendix_ii[p] THEN "build_instr" ELSE "send"]
             /\ UNCHANGED << response, raised >>
        ELSE Abort(p, Exc("OSError")) /\ UNCHANGED << generated_pdfs, writes >>
    /\ UNCHANGED << shared, now, uploads, idx, payload, instructor_pw,
                    include_appendix_ii, student_pdf, instr_pdf, calls, saved >>

\* instr_pdf = build_pdf_wk2_lab(payload, include_appendix_ii=True,
\*                               instructor_password=instructor_pw)
BuildInstr(p) ==
    /\ pc[p] = "build_instr"
    /\ LET r == build_pdf_wk2_lab(payload[p], TRUE, instructor_pw[p], uploads, now)
       IN  IF r.ok
           THEN /\ instr_pdf' = [instr_pdf EXCEPT ![p] = r.doc]
                /\ pc' = [pc EXCEPT ![p] = "append_instr"]
                /\ UNCHANGED << response, raised >>
           ELSE Abort(p, r.exc) /\ UNCHANGED instr_pdf
    /\ UNCHANGED << shared, now, uploads, generated_pdfs, idx, payload, instructor_pw,
                    include_appendix_ii, student_pdf, calls, writes, saved >>

\* instr_pdf = append_pdf_uploads(instr_pdf, all_uploads)
AppendInstr(p) ==
    /\ pc[p] = "append_instr"
    /\ \E autoDecrypt \in BOOLEAN, readOk \in BOOLEAN :
        LET r == append_pdf_uploads(instr_pdf[p], all_uploads(p), uploads,
                                    autoDecrypt, readOk)
        IN  IF r.ok
            THEN /\ instr_pdf' = [instr_pdf EXCEPT ![p] = r.doc]
                 /\ pc' = [pc EXCEPT ![p] = "write_instr"]
                 /\ UNCHANGED << response, raised >>
            ELSE Abort(p, r.exc) /\ UNCHANGED instr_pdf
    /\ UNCHANGED << shared, now, uploads, generated_pdfs, idx, payload, instructor_pw,
                    include_appendix_ii, student_pdf, calls, writes, saved >>

\* with open(os.path.join(OUT_DIR, instr_name), "wb") as f: f.write(instr_pdf)
WriteInstr(p) ==
    /\ pc[p] = "write_instr"
    /\ \E writeOk \in BOOLEAN :
        IF writeOk
        THEN /\ generated_pdfs' = (OUT_DIR \o instr_name(p) :> instr_pdf[p]) @@ generated_pdfs
             /\ writes' = writes \cup {[by |-> p, path |-> OUT_DIR \o instr_name(p)]}
             /\ pc' = [pc EXCEPT ![p] = "send"]
             /\ UNCHANGED << response, raised >>
        ELSE Abort(p, Exc("OSError")) /\ UNCHANGED << generated_pdfs, writes >>
    /\ UNCHANGED << shared, now, uploads, idx, payload, instructor_pw,
                    include_appendix_ii, student_pdf, instr_pdf, calls, saved >>

\* Faulty variant of SendFile: the instructor copy is sent when one was made.
SendFile_ReturnsInstr(p) ==
    /\ pc[p] = "send"
    /\ response' = [response EXCEPT ![p] =
           [status |-> 200,
            body |-> IF include_appendix_ii[p] THEN instr_pdf[p] ELSE student_pdf[p],
            download_name |-> student_name(p)]]
    /\ pc' = [pc EXCEPT ![p] = "done"]
    /\ UNCHANGED << shared, now, uploads, generated_pdfs, idx, payload, instructor_pw,
                    include_appendix_ii, student_pdf, instr_pdf, raised, calls, writes,
                    saved >>

\* return send_file(io.BytesIO(student_pdf), ..., download_name=student_name)
SendFile(p) ==
    /\ pc[p] = "send"
    /\ response' = [response EXCEPT ![p] =
           [status |-> 200, body |-> student_pdf[p], download_name |-> student_name(p)]]
    /\ pc' = [pc EXCEPT ![p] = "done"]
    /\ UNCHANGED << shared, now, uploads, generated_pdfs, idx, payload, instructor_pw,
                    include_appendix_ii, student_pdf, instr_pdf, raised, calls, writes,
                    saved >>

\* A second passes while a save_upload call may still read the clock.
Tick ==
    /\ now < MaxClock
    /\ \/ \E p \in Procs : pc[p] = "uploads"
       \/ harness = "save_upload" /\ Len(saved) < MaxCalls
       \/ harness = "build_pdf_twice"
    /\ now' = now + 1
    /\ UNCHANGED << shared, uploads, generated_pdfs, pc, idx, payload, instructor_pw,
                    include_appendix_ii, student_pdf, instr_pdf, response, raised, calls,
                    writes, saved >>

\* -------------------------------------------------- direct calls (harnesses)
\* A call of save_upload on its own: any of the files, under any of the
\* prefixes.  A call that stores nothing leaves the state as it is.
DirectSaveFiles ==
    { NoFile,
      File(<<"a", ".", "p", "n", "g">>, ImgData),
      File(<<"A", ".", "P", "D", "F">>, PdfData(1)),
      File(<<"a", " ", "b", ".", "p", "d", "f">>, PdfData(2)),
      File(<<"a", "_", "b", ".", "p", "d", "f">>, PdfData(1)),
      File(<<" ">>, BadData),
      File(<<"a", ".", "d", "o", "c", "x">>, BadData) }

DirectSavePrefixes == { "p2_unc", "d1" }

DirectSave ==
    /\ harness = "save_upload"
    /\ Len(saved) < MaxCalls
    /\ \E file \in DirectSaveFiles, prefix \in DirectSavePrefixes, saveOk \in BOOLEAN :
        LET r == save_upload(file, prefix, now, uploads, saveOk)
        IN  /\ r.ok /\ r.path # EMPTY
            /\ uploads' = r.store
            /\ writes' = writes \cup {[by |-> 0, path |-> r.path]}
            /\ saved' = Append(saved, SavedEntry(prefix, now, file, r.path, uploads, r.store))
    /\ UNCHANGED << shared, now, generated_pdfs, pc, idx, payload, instructor_pw,
                    include_appendix_ii, student_pdf, instr_pdf, response, raised, calls >>

\* A call of build_pdf_wk2_lab on its own, with the arguments drawn at the start.
NotBuilt == [ok |-> FALSE, exc |-> NoExc, doc |-> NoDoc]

DirectBuild ==
    /\ harness = "build_pdf"
    /\ build_result = NotBuilt
    /\ build_result' = build_pdf_wk2_lab(build_args.payload, build_args.include_appendix_ii,
                                         build_args.instructor_password, uploads, now)
    /\ UNCHANGED << harness, environ, request, build_args, now, uploads, generated_pdfs,
                    pc, idx, payload, instructor_pw, include_appendix_ii, student_pdf,
                    instr_pdf, response, raised, calls, writes, saved, call_args,
                    call_result >>

\* What a direct call of one function leaves alone.
idle == << harness, now, environ, request, generated_pdfs, pc, idx, payload,
           instructor_pw, include_appendix_ii, student_pdf, instr_pdf, response,
           raised, calls, writes, saved, build_args, build_result, call_args >>

\* One call of save_upload, with the file, the prefix and the outcome of
\* fs.save drawn at the start; the result keeps the uploads area as it was
\* before the call.
CallSaveUpload ==
    /\ harness = "save_upload_once"
    /\ ~call_result.done
    /\ LET r == save_upload(call_args.file, call_args.prefix, now, uploads, call_args.saveOk)
       IN  /\ call_result' = [done |-> TRUE, ok |-> r.ok, exc |-> r.exc, path |-> r.path,
                              before |-> uploads]
           /\ uploads' = r.store
    /\ UNCHANGED idle

\* One call of compute_score on a record and an uploads area drawn at the
\* start; the result keeps the record and the uploads area as they were
\* before the call, and the percentage generate_wk2_lab derives.
CallComputeScore ==
    /\ harness = "compute_score"
    /\ ~call_result.done
    /\ call_args.fn = "compute_score"
    /\ LET s == compute_score(call_args.payload, uploads)
       IN  call_result' = [done |-> TRUE, score |-> s.score, total |-> s.total,
                           missing |-> s.missing,
                           pct |-> completion_pct(s.score, s.total),
                           record |-> call_args.payload, before |-> uploads]
    /\ UNCHANGED << idle, uploads >>

\* The percentage expression of generate_wk2_lab on a score and a total drawn
\* at the start.
CallCompletionPct ==
    /\ harness = "compute_score"
    /\ ~call_result.done
    /\ call_args.fn = "completion_pct"
    /\ call_result' = [done |-> TRUE, score |-> call_args.score, total |-> call_args.total,
                       pct |-> completion_pct(call_args.score, call_args.total)]
    /\ UNCHANGED << idle, uploads >>

\* Two calls of build_pdf_wk2_lab, one after the other, with the same
\* arguments on the same uploads area; the clock may advance in between.
NotRebuilt == [done |-> FALSE, again |-> FALSE, first |-> NotBuilt, second |-> NotBuilt]

CallBuild ==
    /\ harness = "build_pdf_twice"
    /\ ~call_result.done
    /\ call_result' = [call_result EXCEPT
           !.done = TRUE,
           !.first = build_pdf_wk2_lab(call_args.payload, call_args.include_appendix_ii,
                                       call_args.instructor_password, uploads, now)]
    /\ UNCHANGED << idle, uploads >>

CallBuildAgain ==
    /\ harness = "build_pdf_twice"
    /\ call_result.done /\ ~call_result.again
    /\ call_result' = [call_result EXCEPT
           !.again = TRUE,
           !.second = build_pdf_wk2_lab(call_args.payload, call_args.include_appendix_ii,
                                        call_args.instructor_password, uploads, now)]
    /\ UNCHANGED << idle, uploads >>

\* One call of safe_filename on a name drawn at the start.
CallSafeFilename ==
    /\ harness = "safe_filename"
    /\ ~call_result.done
    /\ call_result' = [done |-> TRUE, name |-> safe_filename(call_args.s)]
    /\ UNCHANGED << idle, uploads >>

\* One call of add_uploaded_block on an empty story, with a reference and an
\* uploads area drawn at the start: the story afterwards (the label, then the
\* image box or a note), or the exception of the image load, which leaves
\* the label in the story.
CallAddUploadedBlock ==
    /\ harness = "render"
    /\ call_args.fn = "add_uploaded_block"
    /\ ~call_result.done
    /\ LET b == add_uploaded_block(uploads, call_args.path)
           img == IF b = "image" THEN fit_image_fixed_height(uploads, call_args.path)
                  ELSE [ok |-> TRUE, exc |-> NoExc]
       IN  call_result' = [done |-> TRUE, ok |-> img.ok, exc |-> img.exc,
                           out |-> IF b = "none" THEN EMPTY
                                   ELSE IF img.ok THEN <<"label", b>>
                                   ELSE <<"label">>]
    /\ UNCHANGED << idle, uploads >>

\* One call of appendix_image_cell: the cell it returns, or the exception of
\* the image load.
CallAppendixImageCell ==
    /\ harness = "render"
    /\ call_args.fn = "appendix_image_cell"
    /\ ~call_result.done
    /\ LET c == appendix_image_cell(uploads, call_args.path)
           img == IF c = "image" THEN fit_image_fixed_height(uploads, call_args.path)
                  ELSE [ok |-> TRUE, exc |-> NoExc]
       IN  call_result' = [done |-> TRUE, ok |-> img.ok, exc |-> img.exc,
                           out |-> IF img.ok THEN <<c>> ELSE EMPTY]
    /\ UNCHANGED << idle, uploads >>

\* One call of append_pdf_uploads on a document, a list of references and
\* the library's behaviour drawn at the start.
CallAppendPdfUploads ==
    /\ harness = "append_pdf_uploads"
    /\ ~call_result.done
    /\ LET r == append_pdf_uploads(call_args.main, call_args.upload_paths, uploads,
                                   call_args.autoDecrypt, call_args.readOk)
       IN  call_result' = [done |-> TRUE, ok |-> r.ok, exc |-> r.exc, doc |-> r.doc,
                           before |-> uploads]
    /\ UNCHANGED << idle, uploads >>

\* ------------------------------------------------------------------ inputs
\* A form: the two mandatory fields, one value for every other text field,
\* the instructor flag and the instructor password.
Form(member1, lab_date, rest, flag, pw) ==
    [k \in Range(FORM_TEXT_KEYS) \cup {"include_appendix_ii", "instructor_password"} |->
        CASE k = "member1" -> member1
          [] k = "lab_date" -> lab_date
          [] k = "include_appendix_ii" -> flag
          [] k = "instructor_password" -> pw
          [] OTHER -> rest]

NoRequest == [form |-> EmptyDir, files |-> EmptyDir]

PngName == <<"a", ".", "p", "n", "g">>
PdfName == <<"a", ".", "P", "D", "F">>
DocxName == <<"a", ".", "d", "o", "c", "x">>
\* An image name with a leading blank, a sign outside [A-Za-z0-9._-], a dot
\* before the extension and an extension in mixed case.
OddName == <<" ", "a", "#", ".", "b", ".", "P", "n", "G">>

\* The files a submission may send under the key p2_unc_upload (a key of
\* all_uploads) and under app1_table_length (an Appendix I key).
BlockFiles == { NoFile, File(PngName, ImgData), File(PngName, BadData),
                File(PdfName, PdfData(2)), File(PdfName, BadData),
                File(DocxName, BadData), File(OddName, ImgData) }

AppendixFiles == { NoFile, File(PngName, ImgData), File(PdfName, PdfData(1)) }

Requests ==
    { [form |-> Form(m, d, r, f, w),
       files |-> ("p2_unc_upload" :> bf) @@ ("app1_table_length" :> af)] :
        m \in {EMPTY, <<" ">>, <<"A", " ", "b">>},
        d \in {EMPTY, <<"d", ".", "1">>},
        r \in {EMPTY, <<"x">>},
        f \in {EMPTY, <<"o", "n">>},
        w \in {EMPTY, <<" ">>, <<" ", "p", " ">>},
        bf \in BlockFiles, af \in AppendixFiles }

\* The narrower requests of two concurrent submissions.
ConcRequests ==
    { [form |-> Form(m, <<"d">>, EMPTY, f, <<"p">>),
       files |-> ("p2_unc_upload" :> bf)] :
        m \in {EMPTY, <<"A">>},
        f \in {EMPTY, <<"o", "n">>},
        bf \in {NoFile, File(PdfName, PdfData(1)), File(DocxName, BadData)} }

InitLocals ==
    /\ now = 0
    /\ uploads = EmptyDir
    /\ generated_pdfs = EmptyDir
    /\ idx = [p \in Procs |-> 0]
    /\ payload = [p \in Procs |-> EmptyDir]
    /\ instructor_pw = [p \in Procs |-> EMPTY]
    /\ include_appendix_ii = [p \in Procs |-> FALSE]
    /\ student_pdf = [p \in Procs |-> NoDoc]
    /\ instr_pdf = [p \in Procs |-> NoDoc]
    /\ response = [p \in Procs |-> NoResponse]
    /\ raised = [p \in Procs |-> NoExc]
    /\ calls = [p \in Procs |-> {}]
    /\ writes = {}
    /\ saved = << >>
    /\ build_result = NotBuilt
    /\ call_args = NoCall
    /\ call_result = NoCall

NoBuildArgs == [payload |-> EmptyDir, include_appendix_ii |-> FALSE,
                instructor_password |-> EMPTY]

\* One submission.
Init ==
    /\ harness = "generate"
    /\ environ \in {EMPTY, <<"e">>}
    /\ \E r \in Requests : request = [p \in Procs |-> IF p = 1 THEN r ELSE NoRequest]
    /\ pc = [p \in Procs |-> IF p = 1 THEN "start" ELSE "off"]
    /\ build_args = NoBuildArgs
    /\ InitLocals

\* Two submissions, interleaved.
InitConc ==
    /\ harness = "generate"
    /\ environ = EMPTY
    /\ request \in [Procs -> ConcRequests]
    /\ pc = [p \in Procs |-> "start"]
    /\ build_args = NoBuildArgs
    /\ InitLocals

\* save_upload called repeatedly.
InitSave ==
    /\ harness = "save_upload"
    /\ environ = EMPTY
    /\ request = [p \in Procs |-> NoRequest]
    /\ pc = [p \in Procs |-> "off"]
    /\ build_args = NoBuildArgs
    /\ InitLocals

\* The stored files of a direct build_pdf_wk2_lab call, and its arguments.
BuildPng == upload_path("p2_unc", 0, PngName)
BuildPdf == upload_path("p2_unc", 0, PdfName)
BuildGone == upload_path("p2_unc", 1, PngName)
BuildStore == (BuildPng :> ImgData) @@ (BuildPdf :> PdfData(1))

BuildArgs ==
    { [payload |-> ("member1" :> m) @@ ("lab_date" :> <<"d">>) @@ ("p2_unc_upload" :> u),
       include_appendix_ii |-> inc, instructor_password |-> w] :
        m \in {<<"A">>, <<"B">>},
        u \in {EMPTY, BuildPng, BuildPdf, BuildGone},
        inc \in BOOLEAN,
        w \in {EMPTY, <<" ">>, <<"\t", " ">>, <<"p">>, <<" ", "p">>, <<"p", " ", "q">>,
               <<" ", "p", "q", " ">>} }

InitBuild ==
    /\ harness = "build_pdf"
    /\ environ = EMPTY
    /\ request = [p \in Procs |-> NoRequest]
    /\ pc = [p \in Procs |-> "off"]
    /\ build_args \in BuildArgs
    /\ now = 0
    /\ uploads = BuildStore
    /\ generated_pdfs = EmptyDir
    /\ idx = [p \in Procs |-> 0]
    /\ payload = [p \in Procs |-> EmptyDir]
    /\ instructor_pw = [p \in Procs |-> EMPTY]
    /\ include_appendix_ii = [p \in Procs |-> FALSE]
    /\ student_pdf = [p \in Procs |-> NoDoc]
    /\ instr_pdf = [p \in Procs |-> NoDoc]
    /\ response = [p \in Procs |-> NoResponse]
    /\ raised = [p \in Procs |-> NoExc]
    /\ calls = [p \in Procs |-> {}]
    /\ writes = {}
    /\ saved = << >>
    /\ build_result = NotBuilt
    /\ call_args = NoCall
    /\ call_result = NoCall

\* The state outside any submission and any direct build.
InitIdle ==
    /\ environ = EMPTY
    /\ request = [p \in Procs |-> NoRequest]
    /\ pc = [p \in Procs |-> "off"]
    /\ generated_pdfs = EmptyDir
    /\ idx = [p \in Procs |-> 0]
    /\ payload = [p \in Procs |-> EmptyDir]
    /\ instructor_pw = [p \in Procs |-> EMPTY]
    /\ include_appendix_ii = [p \in Procs |-> FALSE]
    /\ student_pdf = [p \in Procs |-> NoDoc]
    /\ instr_pdf = [p \in Procs |-> NoDoc]
    /\ response = [p \in Procs |-> NoResponse]
    /\ raised = [p \in Procs |-> NoExc]
    /\ calls = [p \in Procs |-> {}]
    /\ writes = {}
    /\ saved = << >>
    /\ build_args = NoBuildArgs
    /\ build_result = NotBuilt

\* The files of a single save_upload call: none, unnamed, named with blanks,
\* allowed and not allowed extensions in either case.
UploadCallFiles ==
    { NoFile,
      File(EMPTY, ImgData),
      File(<<" ">>, ImgData),
      File(<<"\t", " ">>, PdfData(1)),
      File(PngName, ImgData),
      File(PdfName, PdfData(2)),
      File(<<"a", ".", "P", "n", "G">>, ImgData),
      File(<<" ", "a", ".", "p", "d", "f">>, PdfData(1)),
      File(DocxName, BadData),
      File(<<"a">>, BadData),
      File(<<".", "p", "d", "f">>, PdfData(1)),
      File(<<"a", ".", "p", "d", "f", " ">>, PdfData(1)),
      File(<<"a", ".", "P", "D", "F", ".", "B">>, BadData) }

\* The uploads area before the call: empty, or holding an earlier upload.
UploadCallStores == { EmptyDir, (upload_path("p2_unc", 0, PngName) :> BadData) }

InitUpload ==
    /\ harness = "save_upload_once"
    /\ now = 0
    /\ uploads \in UploadCallStores
    /\ call_args \in [file : UploadCallFiles, prefix : DirectSavePrefixes, saveOk : BOOLEAN]
    /\ call_result = NoCall
    /\ InitIdle

\* The records given to compute_score: every required text field holds
\* rest and every required upload field holds ref, but for member2, qa6,
\* d1_upload and signed_data, which vary on their own (member2 may be absent);
\* member3 and sample_calc, which are not required, are always filled.
ScoreStored == upload_path("d1", 0, PngName)
ScoreGone == upload_path("d1", 1, PngName)

ScoreRecord(rest, ref, m2, q6, d1, sd) ==
    (IF m2 = <<"absent">> THEN EmptyDir ELSE ("member2" :> m2))
    @@ ("qa6" :> q6) @@ ("d1_upload" :> d1) @@ ("signed_data" :> sd)
    @@ ("member3" :> <<"x">>) @@ ("sample_calc" :> ScoreStored)
    @@ [k \in Range(YELLOW_TEXT_FIELDS) \ {"member2"} |-> rest]
    @@ [k \in Range(YELLOW_UPLOAD_FIELDS) |-> ref]

ScoreRecords ==
    { ScoreRecord(rest, ref, m2, q6, d1, sd) :
        rest \in {EMPTY, <<" ">>, <<"x">>},
        ref \in {EMPTY, ScoreStored},
        m2 \in {<<"absent">>, <<"\t", " ">>, <<" ", "y">>},
        q6 \in {EMPTY, <<"z">>},
        d1 \in {EMPTY, ScoreStored, ScoreGone},
        sd \in {EMPTY, ScoreStored} }

\* The scores and totals given to the percentage expression.
PctTotals == {0, 1, 3, 100}

InitScore ==
    /\ harness = "compute_score"
    /\ now = 0
    /\ \/ /\ uploads \in { EmptyDir, (ScoreStored :> ImgData) }
          /\ call_args \in { [fn |-> "compute_score", payload |-> r] : r \in ScoreRecords }
       \/ /\ uploads = EmptyDir
          /\ \E t \in PctTotals : \E s \in 0..t :
                call_args = [fn |-> "completion_pct", score |-> s, total |-> t]
    /\ call_result = NoCall
    /\ InitIdle

\* The stored files of a direct append_pdf_uploads call: an image, two
\* paged documents, and a file named .pdf that is no paged document; MergeGone
\* is a reference to a file that is not stored.
MergePng == upload_path("p2_unc", 0, PngName)
MergePdfA == upload_path("p2_unc", 0, PdfName)
MergePdfB == upload_path("d1", 0, <<"b", ".", "p", "d", "f">>)
MergeBad == upload_path("d2", 0, PdfName)
MergeGone == upload_path("d3", 0, PdfName)

MergeStore ==
    (MergePng :> ImgData) @@ (MergePdfA :> PdfData(2)) @@ (MergePdfB :> PdfData(1))
    @@ (MergeBad :> BadData)

MergeRefs == { EMPTY, MergePng, MergePdfA, MergePdfB, MergeBad, MergeGone }

\* The lists of references: of length 0, 1 and 2.
MergeLists ==
    { EMPTY } \cup { <<a>> : a \in MergeRefs } \cup { <<a, b>> : a \in MergeRefs, b \in MergeRefs }

\* The main documents: the student document and the instructor document as
\* build_pdf_wk2_lab composes them, and a document written without encryption.
MergeMains ==
    { build_pdf_wk2_lab(EmptyDir, FALSE, EMPTY, MergeStore, 0).doc,
      build_pdf_wk2_lab(EmptyDir, TRUE, <<"p">>, MergeStore, 0).doc,
      [build_pdf_wk2_lab(EmptyDir, FALSE, EMPTY, MergeStore, 0).doc
          EXCEPT !.encrypt = NoEncryption] }

InitMerge ==
    /\ harness = "append_pdf_uploads"
    /\ now = 0
    /\ uploads = MergeStore
    /\ call_args \in [main : MergeMains, upload_paths : MergeLists,
                       autoDecrypt : BOOLEAN, readOk : BOOLEAN]
    /\ call_result = NoCall
    /\ InitIdle

\* The references given to add_uploaded_block and appendix_image_cell: none,
\* an image, a file named as an image that is none, a paged document, and a
\* file of another extension; the uploads area holds any of these files.
RenderPng == upload_path("p2_unc", 0, PngName)
RenderBadPng == upload_path("d1", 0, PngName)
RenderPdf == upload_path("app1_table_length", 0, PdfName)
RenderDocx == upload_path("p2_unc", 0, DocxName)

RenderFiles ==
    (RenderPng :> ImgData) @@ (RenderBadPng :> BadData) @@ (RenderPdf :> PdfData(1))
    @@ (RenderDocx :> BadData)

RenderRefs == { EMPTY, RenderPng, RenderBadPng, RenderPdf, RenderDocx }

RenderStores == { [p \in S |-> RenderFiles[p]] : S \in SUBSET (DOMAIN RenderFiles) }

InitRender ==
    /\ harness = "render"
    /\ now = 0
    /\ uploads \in RenderStores
    /\ call_args \in [fn : {"add_uploaded_block", "appendix_image_cell"}, path : RenderRefs]
    /\ call_result = NoCall
    /\ InitIdle

\* The names given to safe_filename: every string of at most MaxName
\* characters over letters, a digit, ".", "_", "-", blanks and other signs.
NameAtoms == {"a", "B", "1", ".", "_", "-", " ", "\t", "/", "#"}

Names == UNION { [1..n -> NameAtoms] : n \in 0..MaxName }

InitName ==
    /\ harness = "safe_filename"
    /\ now = 0
    /\ uploads = EmptyDir
    /\ call_args \in [s : Names]
    /\ call_result = NoCall
    /\ InitIdle

InitRebuild ==
    /\ harness = "build_pdf_twice"
    /\ now = 0
    /\ uploads = BuildStore
    /\ call_args \in BuildArgs
    /\ call_result = NotRebuilt
    /\ InitIdle

\* ---------------------------------------------------------- specifications
Next ==
    \/ \E p \in Procs : CollectForm(p)
    \/ \E p \in Procs : SaveUpload(p)
    \/ \E p \in Procs : Password(p)
    \/ \E p \in Procs : Validate(p)
    \/ \E p \in Procs : Score(p)
    \/ \E p \in Procs : BuildStudent(p)
    \/ \E p \in Procs : AppendStudent(p)
    \/ \E p \in Procs : WriteStudent(p)
    \/ \E p \in Procs : BuildInstr(p)
    \/ \E p \in Procs : AppendInstr(p)
    \/ \E p \in Procs : WriteInstr(p)
    \/ \E p \in Procs : SendFile(p)
    \/ Tick

NextSave == DirectSave \/ Tick

NextBuild == DirectBuild

Spec == Init /\ [][Next]_vars

SpecConc == InitConc /\ [][Next]_vars

SpecSave == InitSave /\ [][NextSave]_vars

SpecBuild == InitBuild /\ [][NextBuild]_vars

NextUpload == CallSaveUpload

SpecUpload == InitUpload /\ [][NextUpload]_vars

NextScore == CallComputeScore \/ CallCompletionPct

SpecScore == InitScore /\ [][NextScore]_vars

NextMerge == CallAppendPdfUploads

SpecMerge == InitMerge /\ [][NextMerge]_vars

NextRender == CallAddUploadedBlock \/ CallAppendixImageCell

SpecRender == InitRender /\ [][NextRender]_vars

NextName == CallSafeFilename

SpecName == InitName /\ [][NextName]_vars

NextRebuild == CallBuild \/ CallBuildAgain \/ Tick

SpecRebuild == InitRebuild /\ [][NextRebuild]_vars

\* ------------------------------------------------------------------ claims
\* Every atom of s is whitespace: s is empty after trimming.
AllSpace(s) == \A i \in 1..Len(s) : IsSpace(s[i])

\* t is w without its leading and trailing whitespace.
IsTrimOf(t, w) ==
    \E i \in 1..(Len(w) + 1), j \in 0..Len(w) :
        /\ t = SubSeq(w, i, j)
        /\ \A k \in 1..(i - 1) : IsSpace(w[k])
        /\ \A k \in (j + 1)..Len(w) : IsSpace(w[k])
        /\ t # EMPTY => ~IsSpace(t[1]) /\ ~IsSpace(t[Len(t)])

\* The permissions both policies share.
Restricted(e) ==
    e.locked /\ e.canPrint = 1 /\ e.canModify = 0 /\ e.canCopy = 0 /\ e.canAnnotate = 0

\* The public policy: no read password, the fixed owner secret.
PublicPolicy(e) == Restricted(e) /\ e.userPassword = EMPTY /\ e.ownerPassword = <<"OWNER_LOCK">>

InOutDir(path) == SubSeq(path, 1, Len(OUT_DIR)) = OUT_DIR

StudentPersisted(p) == [by |-> p, path |-> OUT_DIR \o student_name(p)] \in writes

InstrPersisted(p) == [by |-> p, path |-> OUT_DIR \o instr_name(p)] \in writes

\* The trigger of the instructor copy, read off the request and the environment.
Trigger(p) ==
    /\ FormGet(p, "include_appendix_ii") # EMPTY
    /\ \/ ~AllSpace(FormGet(p, "instructor_password"))
       \/ ~AllSpace(environ)

\* C1: build_pdf_wk2_lab called with include_appendix_ii=True and a password
\* that is empty or whitespace-only produces a document with no Appendix III,
\* under the public policy.
C1_NoRestrictedWithoutSecret ==
    (build_result.ok /\ build_args.include_appendix_ii
        /\ AllSpace(build_args.instructor_password))
    => (~HasRestricted(build_result.doc) /\ PublicPolicy(build_result.doc.encrypt))

\* C2: every artifact generate_wk2_lab returns or persists carries an access
\* policy (the returned student artifact the public one), whether or not
\* attachments were merged into it.
C2_EveryArtifactCarriesPolicy ==
    /\ \A p \in Procs : response[p].status = 200 => PublicPolicy(response[p].body.encrypt)
    /\ \A path \in DOMAIN generated_pdfs : Restricted(generated_pdfs[path].encrypt)

\* C3: the document returned in the response is the student variant: it has
\* the pages of student_pdf, never Appendix III, and goes out under the
\* student name, whatever the flag and the secret.
C3_ReturnedIsStudentVariant ==
    \A p \in Procs : response[p].status = 200 =>
        /\ ~HasRestricted(response[p].body)
        /\ response[p].body.pages = student_pdf[p].pages
        /\ Len(response[p].body.pages) > 0
        /\ response[p].download_name = student_name(p)

\* C3 witness: a submission answered with the student document after its
\* instructor copy, which holds Appendix III, was persisted.
C3_Witness ==
    \E p \in Procs :
        /\ response[p].status = 200
        /\ InstrPersisted(p)
        /\ HasRestricted(generated_pdfs[OUT_DIR \o instr_name(p)])

\* C4: a submission with nothing wrong in its inputs or the storage, whose
\* student artifact was persisted, has its instructor artifact persisted if
\* and only if the flag is set and a non-empty secret is available.
C4_InstructorIffFlagAndSecret ==
    \A p \in Procs :
        (pc[p] = "done" /\ StudentPersisted(p)
            /\ raised[p].type \notin {"ValueError", "OSError", "ImageError", "PdfReadError"})
        => (InstrPersisted(p) <=> Trigger(p))

\* C5: build_pdf_wk2_lab locks with the trimmed secret as read password and
\* the trimmed secret followed by "_OWNER" as owner password exactly when
\* include_appendix_ii is set and the secret is not blank, and with the
\* public policy otherwise; printing allowed, the rest disabled, either way.
C5_PolicyChoice ==
    build_result.ok =>
        LET e == build_result.doc.encrypt
            w == build_args.instructor_password
        IN  /\ Restricted(e)
            /\ IF build_args.include_appendix_ii /\ ~AllSpace(w)
               THEN /\ e.userPassword # EMPTY
                    /\ IsTrimOf(e.userPassword, w)
                    /\ e.ownerPassword = e.userPassword \o <<"_OWNER">>
               ELSE PublicPolicy(e)

\* C5 witness: a privileged build whose secret was typed with blanks around it.
C5_Witness ==
    /\ build_result.ok
    /\ build_args.include_appendix_ii
    /\ build_args.instructor_password = <<" ", "p", "q", " ">>
    /\ build_result.doc.encrypt.userPassword = <<"p", "q">>

\* C6: a submission whose member1 or lab_date is blank never reaches
\* compute_score, build_pdf_wk2_lab or append_pdf_uploads, composes, persists
\* and returns no document, and ends with status 400.
C6_MandatoryFieldsFirst ==
    \A p \in Procs :
        (AllSpace(FormGet(p, "member1")) \/ AllSpace(FormGet(p, "lab_date"))) =>
            /\ calls[p] \cap {"compute_score", "build_pdf_wk2_lab", "append_pdf_uploads"} = {}
            /\ Len(student_pdf[p].pages) = 0 /\ Len(instr_pdf[p].pages) = 0
            /\ \A w \in writes : w.by = p => ~InOutDir(w.path)
            /\ response[p].status # 200
            /\ pc[p] = "done" => response[p].status = 400

\* C6 witness: a submission with a name and a blank date, rejected by the
\* validation after its upload was stored.
C6_Witness ==
    \E p \in Procs :
        /\ pc[p] = "done" /\ response[p].status = 400
        /\ ~AllSpace(FormGet(p, "member1")) /\ AllSpace(FormGet(p, "lab_date"))
        /\ "save_upload" \in calls[p]
        /\ \E w \in writes : w.by = p

\* C7: once a stage has raised, the submission is over: the response is the
\* error and carries no document.
C7_FailureAborts ==
    \A p \in Procs : raised[p].type # "none" =>
        /\ pc[p] = "done"
        /\ response[p].status = 400
        /\ Len(response[p].body.pages) = 0

\* C7 witness: a failure after the student document was composed and persisted.
C7_Witness ==
    \E p \in Procs :
        /\ raised[p].type # "none"
        /\ Len(student_pdf[p].pages) > 0
        /\ StudentPersisted(p)
        /\ response[p].status = 400

\* C8: a storage I/O failure is answered as a server-side failure (a 5xx
\* status), not with the client-error status of a rejected request.
C8_StorageFailureIsServerSide ==
    \A p \in Procs : raised[p].type = "OSError" => response[p].status >= 500

\* C9: no path of the uploads area or the output area is written by two
\* submissions.
C9_NoSharedPath ==
    \A w1 \in writes, w2 \in writes : w1.path = w2.path => w1.by = w2.by

NamedFile(file) == file.present /\ ~AllSpace(file.filename)

\* C11: save_upload given a named file whose extension, lower-cased, is none
\* of .png, .jpg, .jpeg, .webp, .pdf raises the unsupported-type error
\* holding that extension and the allowed set, and the uploads area is as it
\* was before the call.
C11_UnsupportedRejectedBeforeStorage ==
    LET Allowed == { <<".", "p", "n", "g">>, <<".", "j", "p", "g">>,
                     <<".", "j", "p", "e", "g">>, <<".", "w", "e", "b", "p">>,
                     <<".", "p", "d", "f">> }
        ext == Lower(SplitExt(call_args.file.filename))
    IN  (call_result.done /\ NamedFile(call_args.file) /\ ext \notin Allowed) =>
            /\ ~call_result.ok
            /\ call_result.exc.type = "ValueError"
            /\ call_result.exc.ext = ext
            /\ call_result.exc.allowed = Allowed
            /\ call_result.path = EMPTY
            /\ uploads = call_result.before

\* C11 witness: a .docx file rejected, with the uploads area holding the
\* earlier upload it held before the call.
C11_Witness ==
    /\ call_result.done
    /\ call_args.file.filename = DocxName
    /\ call_result.exc.type = "ValueError"
    /\ call_result.exc.ext = <<".", "d", "o", "c", "x">>
    /\ uploads = call_result.before
    /\ uploads # EmptyDir

\* C12: save_upload given no file, a file without a name or a file whose
\* name is only whitespace returns "" without raising, and the uploads area
\* is as it was before the call.
C12_NoFileIsEmptyReference ==
    (call_result.done /\ ~NamedFile(call_args.file)) =>
        /\ call_result.ok
        /\ call_result.exc.type = "none"
        /\ call_result.path = EMPTY
        /\ uploads = call_result.before

\* C12 witness: a file named with a tab and a blank, answered with "".
C12_Witness ==
    /\ call_result.done
    /\ call_args.file.present
    /\ call_args.file.filename = <<"\t", " ">>
    /\ call_result.ok
    /\ call_result.path = EMPTY

\* The required keys in schema order: the text keys, then the upload keys.
Schema == YELLOW_TEXT_FIELDS \o YELLOW_UPLOAD_FIELDS

\* The i-th required key is satisfied by record rec on uploads area fs.
Satisfied(rec, fs, i) ==
    LET v == IF Schema[i] \in DOMAIN rec THEN rec[Schema[i]] ELSE EMPTY
    IN  IF i <= Len(YELLOW_TEXT_FIELDS) THEN ~AllSpace(v)
        ELSE v # EMPTY /\ v \in DOMAIN fs

Unsatisfied(rec, fs) == { i \in 1..Len(Schema) : ~Satisfied(rec, fs, i) }

\* The n-th smallest member of the set of indices I.
NthOf(I, n) == CHOOSE i \in I : Cardinality({ h \in I : h < i }) = n - 1

ScoreCalled == call_result.done /\ call_args.fn = "compute_score"

\* C13: compute_score returns total = the number of required text keys plus
\* the number of required upload keys, score = the number of satisfied
\* required keys, and missing = the unsatisfied required keys in schema order,
\* text keys before upload keys; with none satisfied, score is 0 and missing
\* is the whole schema.
C13_ScoreTotalMissing ==
    ScoreCalled =>
        LET U == Unsatisfied(call_args.payload, uploads)
        IN  /\ call_result.total = Len(YELLOW_TEXT_FIELDS) + Len(YELLOW_UPLOAD_FIELDS)
            /\ call_result.score = Len(Schema) - Cardinality(U)
            /\ Len(call_result.missing) = Cardinality(U)
            /\ \A n \in 1..Cardinality(U) : call_result.missing[n] = Schema[NthOf(U, n)]
            /\ Cardinality(U) = Len(Schema) =>
                  call_result.score = 0 /\ call_result.missing = Schema

\* C13 witness: a record with some fields satisfied and missing keys of both
\* kinds, an absent text key and a dangling reference among them.
C13_Witness ==
    /\ ScoreCalled
    /\ call_result.score > 0
    /\ "member2" \notin DOMAIN call_args.payload
    /\ call_args.payload["d1_upload"] = ScoreGone
    /\ \E i \in 1..Len(call_result.missing), j \in 1..Len(call_result.missing) :
          /\ i < j
          /\ call_result.missing[i] = "member2"
          /\ call_result.missing[j] = "d1_upload"

\* C14: when every required text field and every required upload field is
\* satisfied, score = total, missing is empty and the percentage is 100.
C14_AllSatisfied ==
    (ScoreCalled /\ Unsatisfied(call_args.payload, uploads) = {}) =>
        /\ call_result.score = call_result.total
        /\ call_result.missing = EMPTY
        /\ call_result.pct = 100

\* C14 witness: a record with all of the required fields satisfied, scored.
C14_Witness ==
    /\ ScoreCalled
    /\ Unsatisfied(call_args.payload, uploads) = {}
    /\ call_result.score = Len(Schema)
    /\ call_result.pct = 100

\* C15: a required text key is counted missing exactly when its value is
\* blank, a required upload key exactly when its reference is empty or names
\* no stored file; the call leaves the record and the uploads area as they
\* were.
C15_SatisfiedIff ==
    ScoreCalled =>
        /\ \A i \in 1..Len(Schema) :
              (Schema[i] \in Range(call_result.missing))
                  <=> ~Satisfied(call_args.payload, uploads, i)
        /\ call_result.score = Cardinality({ i \in 1..Len(Schema) :
                                   Satisfied(call_args.payload, uploads, i) })
        /\ uploads = call_result.before
        /\ call_args.payload = call_result.record

\* C15 witness: a reference to a file that is not stored counted as missing
\* next to a reference to a stored file counted as satisfied.
C15_Witness ==
    /\ ScoreCalled
    /\ call_args.payload["d1_upload"] = ScoreGone
    /\ "d1_upload" \in Range(call_result.missing)
    /\ call_args.payload["signed_data"] = ScoreStored
    /\ "signed_data" \notin Range(call_result.missing)

\* C16: the percentage is the integer nearest to 100 * score / total when
\* total > 0 and 0 when total = 0, and it lies between 0 and 100.
C16_CompletionPct ==
    call_result.done =>
        LET s == call_result.score
            t == call_result.total
            d == 100 * s - call_result.pct * t
        IN  /\ call_result.pct \in 0..100
            /\ IF t = 0 THEN call_result.pct = 0
               ELSE 2 * d <= t /\ -2 * d <= t

\* C16 witness: a quotient that rounds up, 2 of 3 giving 67.
C16_Witness ==
    /\ call_result.done
    /\ call_args.fn = "completion_pct"
    /\ call_result.score = 2 /\ call_result.total = 3
    /\ call_result.pct = 67

\* Reference r is of paged-document kind and names a file stored in fs.
IsPagedRef(r, fs) ==
    r # EMPTY /\ Lower(SplitExt(r)) = <<".", "p", "d", "f">> /\ r \in DOMAIN fs

RECURSIVE PagesBefore(_, _, _)
\* The pages of the paged documents among the first i - 1 references.
PagesBefore(refs, fs, i) ==
    IF i <= 1 THEN 0
    ELSE PagesBefore(refs, fs, i - 1)
         + (IF IsPagedRef(refs[i - 1], fs) THEN fs[refs[i - 1]].pages ELSE 0)

\* Every paged document among the references can be parsed.
AllParseable(refs, fs) ==
    \A i \in 1..Len(refs) : IsPagedRef(refs[i], fs) => fs[refs[i]].kind = "pdf"

\* The text of exception e holds reference r.
Mentions(e, r) ==
    /\ "message" \in DOMAIN e
    /\ \E k \in 1..(Len(e.message) - Len(r) + 1) :
          SubSeq(e.message, k, k + Len(r) - 1) = r

\* C17: append_pdf_uploads on a main document of N pages and references whose
\* paged documents (all parseable, the storage readable, PyPDF2 opening a
\* document of empty read password by itself) have P1, ..., Pk pages returns
\* N + P1 + ... + Pk pages: the main document's pages, then each paged
\* document's pages in list order, each in its own page order.
C17_MergedPages ==
    LET refs == call_args.upload_paths
        main == call_args.main
        q == call_result.doc.pages
        N == Len(main.pages)
    IN  (call_result.done /\ call_args.readOk /\ call_args.autoDecrypt
            /\ AllParseable(refs, uploads)) =>
            /\ call_result.ok
            /\ Len(q) = N + PagesBefore(refs, uploads, Len(refs) + 1)
            /\ SubSeq(q, 1, N) = main.pages
            /\ \A i \in 1..Len(refs) :
                  IsPagedRef(refs[i], uploads) =>
                      \A n \in 1..uploads[refs[i]].pages :
                          q[N + PagesBefore(refs, uploads, i) + n]
                              = [src |-> refs[i], sec |-> "attachment", no |-> n]

\* C18: append_pdf_uploads returns the document it was given, with no error,
\* when no reference of the list is a stored paged document.
C18_NothingToAppendIsIdentity ==
    (call_result.done
        /\ \A i \in 1..Len(call_args.upload_paths) :
              ~IsPagedRef(call_args.upload_paths[i], uploads))
    => /\ call_result.ok
       /\ call_result.exc.type = "none"
       /\ call_result.doc = call_args.main
       /\ uploads = call_result.before

\* C18 witness: the instructor document, locked with a password, given an
\* image and a reference to a file that is not stored, and returned as it was.
C18_Witness ==
    /\ call_result.done
    /\ call_args.upload_paths = <<MergePng, MergeGone>>
    /\ call_args.main.encrypt.userPassword = <<"p">>
    /\ call_result.ok
    /\ call_result.doc = call_args.main

\* C19: when a stored paged document of the list cannot be parsed (the main
\* document and the storage being readable), append_pdf_uploads fails,
\* returns no document, and the failure names an unparseable reference.
C19_MergeFailureNamesReference ==
    LET refs == call_args.upload_paths
    IN  (call_result.done /\ call_args.readOk /\ ~call_args.main.encrypt.locked
            /\ ~AllParseable(refs, uploads))
        => /\ ~call_result.ok
           /\ Len(call_result.doc.pages) = 0
           /\ \E i \in 1..Len(refs) :
                 /\ IsPagedRef(refs[i], uploads)
                 /\ uploads[refs[i]].kind # "pdf"
                 /\ Mentions(call_result.exc, refs[i])

\* The bytes of an uploaded file are what its name says: an image under an
\* image extension, a paged document under .pdf.
Genuine(file) ==
    \/ ~file.present
    \/ is_image(file.filename) /\ file.data.kind = "img"
    \/ is_pdf(file.filename) /\ file.data.kind = "pdf"

\* The references of the record under the upload keys, in the order
\* generate_wk2_lab fills them.
UploadRefs(p) == [i \in 1..Len(UPLOAD_KEYS) |-> Get(payload[p], UPLOAD_KEYS[i], EMPTY)]

\* C20: a submission whose uploaded files are genuine, and which meets no
\* validation, storage or decryption failure, is answered with a document
\* that ends with the pages of every upload key's stored paged document, in
\* the order of the keys.
C20_EveryPagedUploadAppended ==
    \A p \in Procs :
        (/\ pc[p] = "done"
         /\ \A k \in DOMAIN request[p].files : Genuine(request[p].files[k])
         /\ raised[p].type \notin {"ValueError", "OSError", "FileNotDecryptedError"})
        => /\ response[p].status = 200
           /\ LET refs == UploadRefs(p)
                  q == response[p].body.pages
                  T == PagesBefore(refs, uploads, Len(refs) + 1)
              IN  /\ Len(q) >= T
                  /\ \A i \in 1..Len(refs) :
                        IsPagedRef(refs[i], uploads) =>
                            \A n \in 1..uploads[refs[i]].pages :
                                q[Len(q) - T + PagesBefore(refs, uploads, i) + n]
                                    = [src |-> refs[i], sec |-> "attachment", no |-> n]

\* member1 + "_" + lab_date of the submitted form, each trimmed.
NameSource(p) == Strip(FormGet(p, "member1")) \o <<"_">> \o Strip(FormGet(p, "lab_date"))

\* s with every "." turned into "_".
Dotless(s) == [i \in 1..Len(s) |-> IF s[i] = "." THEN "_" ELSE s[i]]

\* The paths of the output area written by submission p.
OutputWrites(p) == { w.path : w \in { x \in writes : x.by = p /\ InOutDir(x.path) } }

\* C21 as stated: the student artifact is named by the sanitized form of
\* member1 + "_" + lab_date followed by "_STUDENT" and ".pdf", the instructor
\* artifact by the same base followed by "_INSTRUCTOR".
C21_NameIsSanitizedBase ==
    \A p \in Procs :
        LET base == safe_filename(NameSource(p))
        IN  /\ response[p].status = 200 =>
                  response[p].download_name = base \o <<"_STUDENT", ".", "pdf">>
            /\ OutputWrites(p) \subseteq
                  { OUT_DIR \o base \o <<"_STUDENT", ".", "pdf">>,
                    OUT_DIR \o base \o <<"_INSTRUCTOR", ".", "pdf">> }

\* C21, amended: the base of both names is the sanitized form of
\* member1 + "_" + lab_date with every "." turned into "_"; the student
\* artifact is stored and sent under base + "_STUDENT" + ".pdf", the
\* instructor artifact stored under base + "_INSTRUCTOR" + ".pdf".
C21_NameIsDotlessSanitizedBase ==
    \A p \in Procs :
        LET base == Dotless(safe_filename(NameSource(p)))
            student == base \o <<"_STUDENT", ".", "pdf">>
            instr == base \o <<"_INSTRUCTOR", ".", "pdf">>
        IN  /\ response[p].status = 200 =>
                  /\ response[p].download_name = student
                  /\ OUT_DIR \o student \in OutputWrites(p)
            /\ OutputWrites(p) \subseteq { OUT_DIR \o student, OUT_DIR \o instr }
            /\ pc[p] \in {"send", "done"} /\ include_appendix_ii[p] /\ raised[p].type = "none"
                  => OUT_DIR \o instr \in OutputWrites(p)

\* C21 witness: member1 "A b" and lab_date "d.1" answered under
\* A_b_d_1_STUDENT.pdf, with A_b_d_1_INSTRUCTOR.pdf stored.
C21_Witness ==
    \E p \in Procs :
        /\ response[p].status = 200
        /\ FormGet(p, "member1") = <<"A", " ", "b">>
        /\ FormGet(p, "lab_date") = <<"d", ".", "1">>
        /\ response[p].download_name
              = <<"A", "_", "b", "_", "d", "_", "1", "_STUDENT", ".", "pdf">>
        /\ OUT_DIR \o <<"A", "_", "b", "_", "d", "_", "1", "_INSTRUCTOR", ".", "pdf">>
              \in OutputWrites(p)

\* C22: two calls of build_pdf_wk2_lab with the same record, the same flag
\* and secret, on the same stored files, return the same document.
C22_SameInputsSameBytes ==
    (call_result.done /\ call_result.again) => call_result.first = call_result.second

\* C23: append_pdf_uploads merges exactly the references that are not empty,
\* end in .pdf whatever the letter case, and are stored. A call that returns
\* holds the main document's pages and then the pages of those references, in
\* list order, and no page of any other reference; a call that fails was given
\* at least one such reference, so an empty reference, an image or a missing
\* file never causes an error.
C23_MergesExactlyStoredPdfs ==
    LET refs == call_args.upload_paths
        main == call_args.main
        q == call_result.doc.pages
        N == Len(main.pages)
        sel == { i \in 1..Len(refs) : IsPagedRef(refs[i], uploads) }
    IN  call_result.done =>
            /\ ~call_result.ok => sel # {}
            /\ call_result.ok =>
                  /\ Len(q) = N + PagesBefore(refs, uploads, Len(refs) + 1)
                  /\ SubSeq(q, 1, N) = main.pages
                  /\ \A k \in (N + 1)..Len(q) : \E i \in sel : q[k].src = refs[i]
                  /\ \A i \in sel :
                        \A n \in 1..uploads[refs[i]].pages :
                            q[N + PagesBefore(refs, uploads, i) + n]
                                = [src |-> refs[i], sec |-> "attachment", no |-> n]

\* An image and then a paged document named in capitals: the call returns the
\* main document's pages and the two pages of the paged document.
C23_Witness ==
    /\ call_result.done
    /\ call_args.upload_paths = <<MergePng, MergePdfA>>
    /\ call_result.ok
    /\ Len(call_result.doc.pages) = Len(call_args.main.pages) + 2

\* The call of fn on reference call_args.path has returned or raised.
Rendered(fn) == call_result.done /\ call_args.fn = fn

NameIsImage(r) == Lower(SplitExt(r)) \in IMAGE_EXTS

NameIsPdf(r) == Lower(SplitExt(r)) = <<".", "p", "d", "f">>

\* C24 as stated: add_uploaded_block emits nothing for an empty reference or
\* a missing file; for any other reference it emits a label followed by the
\* boxed image when the reference is an image, or by the note that the PDF
\* pages will be appended when the reference is a paged document, and by
\* one of the two in every case.
C24_LabelThenImageOrNote ==
    LET r == call_args.path
    IN  Rendered("add_uploaded_block") =>
            IF r = EMPTY \/ r \notin DOMAIN uploads
            THEN call_result.ok /\ call_result.out = EMPTY
            ELSE /\ call_result.ok
                 /\ call_result.out \in { <<"label", "image">>, <<"label", "pdf_note">> }
                 /\ NameIsImage(r) => call_result.out = <<"label", "image">>
                 /\ NameIsPdf(r) => call_result.out = <<"label", "pdf_note">>

\* C24: add_uploaded_block emits nothing for an empty reference or a missing
\* file; for any other reference it emits a label, followed by exactly one
\* of: the boxed image when the reference is an image and its file can be
\* read as one, the note that the PDF pages will be appended when the
\* reference is a paged document, or the note that the file type is not
\* supported when the reference is neither. An image reference whose file
\* cannot be read as an image raises after the label.
C24_LabelThenImageOrNoteOrUnsupported ==
    LET r == call_args.path
    IN  Rendered("add_uploaded_block") =>
            IF r = EMPTY \/ r \notin DOMAIN uploads
            THEN call_result.ok /\ call_result.out = EMPTY
            ELSE IF NameIsImage(r)
            THEN IF uploads[r].kind = "img"
                 THEN call_result.ok /\ call_result.out = <<"label", "image">>
                 ELSE ~call_result.ok /\ call_result.out = <<"label">>
            ELSE IF NameIsPdf(r)
            THEN call_result.ok /\ call_result.out = <<"label", "pdf_note">>
            ELSE call_result.ok /\ call_result.out = <<"label", "unsupported">>

\* A stored file of another extension got the label and the third note.
C24_Witness ==
    /\ Rendered("add_uploaded_block")
    /\ call_args.path = RenderDocx
    /\ RenderDocx \in DOMAIN uploads
    /\ call_result.out = <<"label", "unsupported">>

\* The characters of [A-Za-z0-9._-] among those of the names.
AllowedChar(c) == c \in {"a", "B", "1", ".", "_", "-"}

\* The trimmed form of s: s without its leading and trailing blanks.
Trimmed(s) ==
    LET I == { i \in 1..Len(s) : s[i] \notin {" ", "\t", "\n"} }
    IN  IF I = {} THEN << >>
        ELSE SubSeq(s, CHOOSE i \in I : \A j \in I : i <= j,
                       CHOOSE i \in I : \A j \in I : j <= i)

Underscored(c) == IF AllowedChar(c) THEN c ELSE "_"

\* C25 as stated: safe_filename returns its trimmed input with every
\* character outside [A-Za-z0-9._-] replaced by "_", character by character,
\* or "file" when that is empty; the result is never empty and holds allowed
\* characters only.
C25_EachCharacterReplaced ==
    LET t == Trimmed(call_args.s)
        r == call_result.name
    IN  call_result.done =>
            /\ r # << >>
            /\ r = <<"file">> \/ \A i \in 1..Len(r) : AllowedChar(r[i])
            /\ r = IF t = << >> THEN <<"file">>
                   ELSE [i \in 1..Len(t) |-> Underscored(t[i])]

\* C25: safe_filename returns its trimmed input with every maximal run of
\* characters outside [A-Za-z0-9._-] replaced by one "_" and every allowed
\* character kept in order, or "file" when that is empty; the result is never
\* empty and holds allowed characters only.
C25_EachRunReplaced ==
    LET t == Trimmed(call_args.s)
        r == call_result.name
        K == { i \in 1..Len(t) : AllowedChar(t[i]) \/ i = 1 \/ AllowedChar(t[i - 1]) }
        nth(k) == CHOOSE i \in K : Cardinality({ j \in K : j <= i }) = k
    IN  call_result.done =>
            /\ r # << >>
            /\ r = <<"file">> \/ \A i \in 1..Len(r) : AllowedChar(r[i])
            /\ r = IF t = << >> THEN <<"file">>
                   ELSE [k \in 1..Cardinality(K) |-> Underscored(t[nth(k)])]

\* A name of two characters outside the set and then a letter came back as
\* one "_" and the letter.
C25_Witness ==
    /\ call_result.done
    /\ call_args.s = <<"/", "#", "a">>
    /\ call_result.name = <<"_", "a">>

\* C26: appendix_image_cell embeds a reference as an image only when the
\* reference is not empty, is stored and is named as an image; for every
\* other reference save_upload can return (empty, missing, or a paged
\* document) it returns the blank placeholder and loads no image.
C26_OnlyImagesEmbedded ==
    LET r == call_args.path
    IN  (Rendered("appendix_image_cell") /\ (r = EMPTY \/ NameIsImage(r) \/ NameIsPdf(r))) =>
            /\ call_result.out = <<"image">> =>
                  r # EMPTY /\ r \in DOMAIN uploads /\ NameIsImage(r)
            /\ ~(r # EMPTY /\ r \in DOMAIN uploads /\ NameIsImage(r)) =>
                  call_result.ok /\ call_result.out = <<"blank">>

\* C27: a submission answered with the error response has written no
\* artifact to the output area; a failure of the instructor stage leaves no
\* student artifact behind.
C27_ErrorLeavesNoArtifact ==
    \A p \in Procs : response[p].status = 400 => OutputWrites(p) = {}

\* C28: a submission rejected for a blank member1 or lab_date, or for an
\* upload of unsupported extension, has stored no uploaded file: the uploads
\* area holds nothing written by it.
C28_RejectedStoresNothing ==
    \A p \in Procs :
        (pc[p] = "done" /\ raised[p].type = "ValueError") =>
            \A w \in writes : w.by = p => InOutDir(w.path)

\* C29: every document generate_wk2_lab produces (composed, persisted or
\* returned) belongs to a record whose score is at least 2 and whose missing
\* list holds neither member1 nor lab_date; its cover shows both and that score.
C29_ProducedHasMandatory ==
    \A p \in Procs :
        LET docs == { student_pdf[p], instr_pdf[p], response[p].body }
                    \cup { generated_pdfs[path] : path \in OutputWrites(p) }
        IN  \A d \in docs :
                Len(d.pages) > 0 =>
                    /\ payload[p]["score"] >= 2
                    /\ \A i \in 1..Len(payload[p]["missing_fields"]) :
                          payload[p]["missing_fields"][i] \notin {"member1", "lab_date"}
                    /\ d.cover[1] # << >> /\ d.cover[4] # << >>
                    /\ d.cover[5][1] = payload[p]["score"]

\* A submission with the two mandatory fields and nothing else was answered
\* with a document of score 2, other keys missing.
C29_Witness ==
    \E p \in Procs :
        /\ response[p].status = 200
        /\ Len(response[p].body.pages) > 0
        /\ payload[p]["score"] = 2
        /\ Len(payload[p]["missing_fields"]) > 0

\* C30: every non-empty upload reference of the record is, by its stored
\* path, an image or a paged document, and of the kind the uploaded file's own
\* name had; no document composed from the record holds the block for an
\* unsupported file type.
C30_RecordRefsKeepKind ==
    \A p \in Procs :
        /\ \A i \in 1..Len(UPLOAD_KEYS) :
              LET ref == Get(payload[p], UPLOAD_KEYS[i], << >>)
                  name == Get(request[p].files, UPLOAD_KEYS[i], NoFile).filename
              IN  ref # << >> =>
                      /\ NameIsImage(ref) \/ NameIsPdf(ref)
                      /\ NameIsImage(ref) <=> NameIsImage(name)
                      /\ NameIsPdf(ref) <=> NameIsPdf(name)
        /\ \A d \in { student_pdf[p], instr_pdf[p] } :
              \A k \in DOMAIN d.blocks : d.blocks[k] # "unsupported"

\* An image uploaded under a name with a blank, a sign and two dots was
\* stored under a sanitized name and embedded as an image.
C30_Witness ==
    \E p \in Procs :
        /\ response[p].status = 200
        /\ request[p].files["p2_unc_upload"].filename = OddName
        /\ payload[p]["p2_unc_upload"]
              = UPLOADS_DIR \o <<"p2_unc", "_", "0", "_", "a", "_", ".", "b", ".", "P", "n", "G">>
        /\ student_pdf[p].blocks["p2_unc_upload"] = "image"

====
